---- MODULE Spec2Model ----
(***************************************************************************)
(* Time-entry lifecycle of the Time-Tracking-App.                          *)
(*                                                                         *)
(* The store is the time_entries table of the migration, whose BEFORE      *)
(* INSERT / BEFORE UPDATE trigger calculate_time_entry_duration rewrites   *)
(* every row that is written.  The clients are browser sessions showing    *)
(* the TimeTracker and ManualTimeEntry components.  Every supabase call is *)
(* asynchronous: a handler sends a request, the store executes it          *)
(* atomically at some later point, and the rest of the handler (the code   *)
(* after the await) runs when the response is delivered.                   *)
(*                                                                         *)
(* Instants are seconds since 00:00:00 of day 0.  A nullable column or a   *)
(* nullable piece of React state is the empty tuple (null) or a one-tuple  *)
(* holding the value.                                                      *)
(***************************************************************************)
EXTENDS Integers, Sequences, FiniteSets, Bags, TLC

VARIABLES
    time_entries,   \* the rows of public.time_entries, a set of records
    projects,       \* the rows of public.projects
    project_members,\* the rows of public.project_members
    tasks,          \* the rows of public.tasks
    nextId,         \* the next primary key handed out by the store
    net,            \* bag of requests and responses in flight
    mounted,        \* per session: the Index page is mounted (user is set)
    activeEntry,    \* per session: TimeTracker state activeEntry
    selectedProject,\* per session: TimeTracker state selectedProject
    tracker,        \* per session: the other state of TimeTracker
    toast,          \* per session: the title of the toast shown last
    form,           \* per session: the state of ManualTimeEntry
    reports,        \* per session: the state of the Reports page
    stats           \* per session: the state of DashboardStats

vars == <<time_entries, projects, project_members, tasks, nextId, net, mounted,
          activeEntry, selectedProject, tracker, toast, form, reports, stats>>

\* the state of the components that only read time entries
views == <<reports, stats>>

\* the tables that the time-entry operations only read
catalog == <<projects, project_members, tasks>>

----------------------------------------------------------------------------
(* Bounds of the model *)

MaxEntries == 2     \* rows that are ever inserted
MaxInflight == 2    \* requests and responses in flight at once
MaxManual == 1      \* rows that are ever inserted in SpecManual
MaxStoreRows == 1   \* rows that are ever inserted in SpecStore
MaxReportLoads == 2 \* calls of loadTimeEntries of a page in flight at once
MaxChartEntries == 3 \* loaded entries of a Reports page in SpecCharts

(* Small input sets *)

Sessions == {"s1", "s2"}
OneSession == {"s1"}
SessionUser == [s \in Sessions |-> "A"]     \* both sessions are logged in as one owner
Users == {"A", "B"}
Projects == {"p1"}
\* the projects and tasks of the scenarios with a second user
ProjectIds == {"p1", "p2"}
TaskIds == {"t1"}
\* values typed into the description field of TimeTracker
Descriptions == {"", "d"}

\* values of `new Date()` when Start is clicked: 09:00:00, 10:30:00
StartInstants == {32400, 37800}
\* values of `new Date()` when Stop is clicked: 09:00:30, 10:30:00.  A stop can be 30
\* seconds (half a minute) or 90 minutes after the start, at the same instant, or
\* before it when the clock that is read is behind the clock that set start_time
StopInstants == {32430, 37800}
\* values of now() in the store
Instants == StartInstants \cup StopInstants
\* the one instant of the scenarios in which time plays no part: 10:30:00
SharedInstants == {37800}
\* values of `new Date()` in the ticks after a start at 10:30:00: 10:30:01, 12:00:00
TickInstants == {37801, 43200}
\* values of `new Date()` when Stop is clicked or the dashboard is opened after a
\* start at 10:30:00: 12:00:00
ViewInstants == {43200}
\* values typed into the <input type="time"> fields, in minutes after midnight:
\* 09:00, 09:45 (the fields start as 09:00 and 10:00)
TimeOptions == {540, 585}
\* values typed into the duration field, in hundredths of an hour: -0.25, 0, 0.07
DurationInputs == {-25, 0, 7}
\* values of the <input type="date"> field, as day numbers
Dates == {0}

Null == <<>>
Some(v) == <<v>>
Val(o) == o[1]

\* values of dateRange that the quick buttons and the date picker of Reports give
\* at 10:30:00 of day 0: this week, last week, and a range whose end is not
\* picked yet
ReportRanges ==
    {[from |-> Some(0), to |-> Some(604799)],
     [from |-> Some(-604800), to |-> Some(-1)],
     [from |-> Some(0), to |-> Null]}

\* insert payloads of a client that calls the API of the store itself; a column
\* that a payload omits has its default (is_running: false, the others null)
StoreRows ==
    {[id |-> 0, user_id |-> u, project_id |-> p, task_id |-> k, category |-> "work",
      description |-> "", start_time |-> 32400, end_time |-> e,
      duration_minutes |-> Null, is_running |-> b] :
        u \in Users, p \in ProjectIds, k \in {Null, Some("t1")},
        e \in {Null, Some(37800)}, b \in BOOLEAN}
\* update payloads of such a client, as the set of columns and their values
StorePatches ==
    {<<{"is_running"}, [is_running |-> FALSE]>>,
     <<{"is_running", "end_time"}, [is_running |-> FALSE, end_time |-> Some(37800)]>>,
     <<{"end_time"}, [end_time |-> Null]>>,
     <<{"user_id"}, [user_id |-> "A"]>>,
     <<{"user_id"}, [user_id |-> "B"]>>}

----------------------------------------------------------------------------
(* The store: the trigger *)

\* n / d rounded to the nearest integer, ties away from zero: the assignment of a
\* numeric quotient to the INTEGER column duration_minutes
RoundDiv(n, d) ==
    IF n >= 0 THEN (2 * n + d) \div (2 * d)
              ELSE -((2 * (-n) + d) \div (2 * d))

\* variant: the quotient truncated instead of rounded
DurationMinutes_truncated(start, end) == (end - start) \div 60

\* EXTRACT(EPOCH FROM (end_time - start_time)) / 60 stored in duration_minutes; the
\* quotient is numeric and the assignment to the INTEGER column rounds it
DurationMinutes(start, end) == RoundDiv(end - start, 60)

\* variant: the trigger keeps a duration_minutes that the statement supplied
calculate_time_entry_duration_keep(new_row, old_row, now) ==
    IF new_row.end_time # Null /\ new_row.duration_minutes = Null
    THEN [new_row EXCEPT !.duration_minutes =
                             Some(DurationMinutes(new_row.start_time, Val(new_row.end_time))),
                         !.is_running = FALSE]
    ELSE new_row

\* variant: the trigger also fills in the elapsed minutes of a row without end_time
calculate_time_entry_duration_elapsed(new_row, old_row, now) ==
    IF new_row.end_time # Null
    THEN [new_row EXCEPT !.duration_minutes =
                             Some(DurationMinutes(new_row.start_time, Val(new_row.end_time))),
                         !.is_running = FALSE]
    ELSE [new_row EXCEPT !.duration_minutes =
                             Some(DurationMinutes(new_row.start_time, now))]

\* variant: the trigger without its second IF
calculate_time_entry_duration_first(new_row, old_row, now) ==
    IF new_row.end_time # Null
    THEN [new_row EXCEPT !.duration_minutes =
                             Some(DurationMinutes(new_row.start_time, Val(new_row.end_time))),
                         !.is_running = FALSE]
    ELSE new_row

\* the trigger function; old_row is Null for an insert (OLD.is_running is then NULL)
calculate_time_entry_duration(new_row, old_row, now) ==
    LET n1 == IF new_row.end_time # Null
              THEN [new_row EXCEPT !.duration_minutes =
                                   Some(DurationMinutes(new_row.start_time, Val(new_row.end_time))),
                               !.is_running = FALSE]
              ELSE new_row
    IN  IF n1.is_running = FALSE /\ old_row # Null /\ Val(old_row).is_running = TRUE
           /\ n1.end_time = Null
        THEN [n1 EXCEPT !.end_time = Some(now),
                        !.duration_minutes = Some(DurationMinutes(n1.start_time, now))]
        ELSE n1

----------------------------------------------------------------------------
(* Rows and messages *)

\* a row of public.time_entries; also the shape of an insert or update payload
BlankRow ==
    [id |-> 0, user_id |-> "", project_id |-> "", task_id |-> Null,
     category |-> "work", description |-> "", start_time |-> 0,
     end_time |-> Null, duration_minutes |-> Null, is_running |-> FALSE]

\* a supabase call in flight: phase "req" until the store has executed it, then
\* "resp" carrying { data, error } back to the awaiting handler; list is the data
\* of a query on projects or tasks, as the set of their ids, and rows the data of
\* a statement that returns several time entries
Request(kind, s, row) ==
    [kind |-> kind, sess |-> s, phase |-> "req", row |-> row, data |-> Null,
     list |-> {}, rows |-> {}, error |-> ""]

Response(m, data, error) ==
    [m EXCEPT !.phase = "resp", !.data = data, !.error = error]

ListResponse(m, list) == [m EXCEPT !.phase = "resp", !.list = list]

Send(m) == net (+) SetToBag({m})
Send2(m1, m2) == net (+) SetToBag({m1}) (+) SetToBag({m2})
Replace(m, r) == (net (-) SetToBag({m})) (+) SetToBag({r})
Receive(m) == net (-) SetToBag({m})

CanSend == BagCardinality(net) < MaxInflight
CanSend2 == BagCardinality(net) + 1 < MaxInflight

----------------------------------------------------------------------------
(* ManualTimeEntry: pure parts *)

\* new Date(`${date}T${time}`) as an instant; Null is Invalid Date (date field empty)
ParseDateTime(date, minutes) ==
    IF date = Null THEN Null ELSE Some(Val(date) * 86400 + minutes * 60)

\* diffHours.toFixed(2), as a number of hundredths of an hour
ToFixed2(diffSeconds) == RoundDiv(diffSeconds, 36)

\* parseFloat(duration) * 60 > 0, for a duration field holding h hundredths of an hour
ValidDuration(duration) == duration # Null /\ Val(duration) > 0

\* Math.round(parseFloat(duration) * 60)
ClientDurationMinutes(h) == (6 * h + 5) \div 10

\* the effect "Calculate duration when start/end times change"
DurationEffect(f) ==
    LET start == ParseDateTime(f.date, f.startTime)
        end == ParseDateTime(f.date, f.endTime)
    IN  IF f.entryMode = "time-range" /\ start # Null /\ end # Null /\ Val(end) > Val(start)
        THEN [f EXCEPT !.duration = Some(ToFixed2(Val(end) - Val(start)))]
        ELSE f

\* a state update followed by the effects React runs for it: the duration effect
\* runs when one of its dependencies [startTime, endTime, date, entryMode] changed
Render(old, new) ==
    IF <<old.startTime, old.endTime, old.date, old.entryMode>>
       # <<new.startTime, new.endTime, new.date, new.entryMode>>
    THEN DurationEffect(new)
    ELSE new

\* the useState initial values of ManualTimeEntry
InitialForm ==
    [mounted |-> FALSE, projects |-> {}, tasks |-> {}, selectedProject |-> "",
     selectedTask |-> "", description |-> "", date |-> Some(0), startTime |-> 540,
     endTime |-> 600, duration |-> Null, entryMode |-> "time-range",
     loading |-> FALSE]

\* the useState initial values of TimeTracker, except activeEntry and
\* selectedProject
InitialTracker ==
    [projects |-> {}, tasks |-> {}, selectedTask |-> "", description |-> "",
     elapsedTime |-> 0, intervals |-> {}]

\* a day and a week, in seconds; day 0 is a Sunday
Day == 86400
Week == 7 * Day

\* startOfWeek and endOfWeek of date-fns, whose weeks start on Sunday
StartOfWeek(now) == now - (now % Week)
EndOfWeek(now) == StartOfWeek(now) + Week - 1

\* the useState initial values of Reports, for a first render at 10:30:00 of day 0
InitialReports ==
    [mounted |-> FALSE, projects |-> {}, timeEntries |-> <<>>,
     selectedProject |-> "all",
     dateRange |-> [from |-> Some(StartOfWeek(37800)), to |-> Some(EndOfWeek(37800))],
     loading |-> FALSE,
     charts |-> [rendered |-> FALSE, error |-> "", project |-> <<>>, daily |-> <<>>,
                 total |-> 0]]

\* the useState initial values of DashboardStats; todayHours and weekHours are
\* kept in minutes, that is as sixty times the hours
InitialStats ==
    [mounted |-> FALSE, todayHours |-> 0, weekHours |-> 0, activeProjects |-> 0,
     completedTasks |-> 0]

----------------------------------------------------------------------------
\* the clients before the page is mounted, and no time entry stored
InitClients ==
    /\ time_entries = {}
    /\ nextId = 1
    /\ net = EmptyBag
    /\ mounted = [s \in Sessions |-> FALSE]
    /\ activeEntry = [s \in Sessions |-> Null]
    /\ selectedProject = [s \in Sessions |-> ""]
    /\ tracker = [s \in Sessions |-> InitialTracker]
    /\ toast = [s \in Sessions |-> ""]
    /\ form = [s \in Sessions |-> InitialForm]
    /\ reports = [s \in Sessions |-> InitialReports]
    /\ stats = [s \in Sessions |-> InitialStats]

\* the owner has created one project
Init ==
    /\ InitClients
    /\ projects = {[id |-> "p1", created_by |-> "A"]}
    /\ project_members = {}
    /\ tasks = {}

----------------------------------------------------------------------------
(* The store executes a request *)

Requests(kind) == {m \in BagToSet(net) : m.kind = kind /\ m.phase = "req"}
Responses(kind) == {m \in BagToSet(net) : m.kind = kind /\ m.phase = "resp"}

\* variant: the insert without the BEFORE INSERT trigger
InsertRow_untriggered(m, now) == [m.row EXCEPT !.id = nextId]

\* INSERT INTO time_entries: the row policy WITH CHECK (user_id = auth.uid()), the
\* primary key default, then the BEFORE INSERT trigger
InsertRow(m, now) ==
    calculate_time_entry_duration([m.row EXCEPT !.id = nextId], Null, now)

\* UPDATE time_entries SET is_running, end_time ... WHERE id = ...: the row as the
\* BEFORE UPDATE trigger leaves it
UpdateRow(old, patch, now) ==
    calculate_time_entry_duration(
        [old EXCEPT !.is_running = patch.is_running, !.end_time = patch.end_time,
                    !.description = patch.description],
        Some(old), now)

\* the policy "Users can view projects they're members of", for auth.uid() = uid
Visible(uid, p) ==
    \/ p.created_by = uid
    \/ \E pm \in project_members : pm.project_id = p.id /\ pm.user_id = uid

\* variant: every row of time_entries is visible to every user
OwnRows_all(uid) == time_entries

\* the rows of time_entries that the policies USING (user_id = auth.uid()) let
\* a statement of uid see, update and delete
OwnRows(uid) == {r \in time_entries : r.user_id = uid}

\* variant: the insert is checked against the foreign keys only
InsertError_unchecked(uid, row) ==
    IF \A q \in projects : q.id # row.project_id THEN "23503"
    ELSE IF row.task_id # Null /\ \A k \in tasks : k.id # Val(row.task_id) THEN "23503"
    ELSE ""

\* the error of an INSERT of row by uid, "" when it is accepted: the policy WITH
\* CHECK (user_id = auth.uid()), then the foreign keys to projects and tasks
InsertError(uid, row) ==
    IF row.user_id # uid THEN "42501"
    ELSE IF \A q \in projects : q.id # row.project_id THEN "23503"
    ELSE IF row.task_id # Null /\ \A k \in tasks : k.id # Val(row.task_id) THEN "23503"
    ELSE ""

\* loadProjects' query: every project the policy lets the user see
ExecLoadProjects(m) ==
    /\ net' = Replace(m, ListResponse(m,
                  {q.id : q \in {x \in projects : Visible(SessionUser[m.sess], x)}}))
    /\ UNCHANGED <<time_entries, catalog, nextId, mounted, activeEntry,
                   selectedProject, tracker, toast, form, views>>

\* loadTasks' query: .eq('project_id', projectId), under the policy "Users can
\* view tasks from their projects"
ExecLoadTasks(m) ==
    /\ net' = Replace(m, ListResponse(m,
                  {k.id : k \in {x \in tasks :
                      /\ x.project_id = m.row.project_id
                      /\ \E q \in projects :
                             q.id = x.project_id /\ Visible(SessionUser[m.sess], q)}}))
    /\ UNCHANGED <<time_entries, catalog, nextId, mounted, activeEntry,
                   selectedProject, tracker, toast, form, views>>

\* loadActiveTimeEntry's query: .eq('user_id').eq('is_running', true).single()
ExecLoadActive(m) ==
    LET rows == {r \in OwnRows(SessionUser[m.sess]) :
                     r.user_id = m.row.user_id /\ r.is_running}
    IN  /\ net' = Replace(m, IF Cardinality(rows) = 1
                             THEN Response(m, Some(CHOOSE r \in rows : TRUE), "")
                             ELSE Response(m, Null, "PGRST116"))
        /\ UNCHANGED <<time_entries, catalog, nextId, mounted, activeEntry,
                       selectedProject, tracker, toast, form, views>>

\* an insert(...) of a client: the row is stored unless the policy or a foreign
\* key rejects it
ExecInsert(m, now, data) ==
    /\ nextId <= MaxEntries
    /\ IF InsertError(SessionUser[m.sess], InsertRow(m, now)) = ""
       THEN /\ time_entries' = time_entries \cup {InsertRow(m, now)}
            /\ nextId' = nextId + 1
            /\ net' = Replace(m, Response(m, data, ""))
       ELSE /\ net' = Replace(m, Response(m, Null,
                          InsertError(SessionUser[m.sess], InsertRow(m, now))))
            /\ UNCHANGED <<time_entries, nextId>>
    /\ UNCHANGED <<catalog, mounted, activeEntry, selectedProject, tracker, toast, form,
                   views>>

\* startTimer's insert(...).select().single()
ExecStartInsert(m, now) == ExecInsert(m, now, Some(InsertRow(m, now)))

\* handleSubmit's insert(...)
ExecManualInsert(m, now) == ExecInsert(m, now, Null)

\* variant: the update of stopTimer without .eq('id', activeEntry.id)
ExecStopUpdate_all(m, now) ==
    LET hit == OwnRows(SessionUser[m.sess])
    IN  /\ time_entries' = (time_entries \ hit) \cup {UpdateRow(r, m.row, now) : r \in hit}
        /\ net' = Replace(m, Response(m, Null, ""))
        /\ UNCHANGED <<catalog, nextId, mounted, activeEntry, selectedProject,
                       tracker, toast, form, views>>

\* stopTimer's update(...).eq('id', activeEntry.id); a row is updated when it has
\* that id and passes the row policy USING (user_id = auth.uid())
ExecStopUpdate(m, now) ==
    LET hit == {r \in OwnRows(SessionUser[m.sess]) : r.id = m.row.id}
    IN  /\ time_entries' = (time_entries \ hit) \cup {UpdateRow(r, m.row, now) : r \in hit}
        /\ net' = Replace(m, Response(m, Null, ""))
        /\ UNCHANGED <<catalog, nextId, mounted, activeEntry, selectedProject,
                       tracker, toast, form, views>>

\* the API answers a write with an error and stores nothing: the { error } that
\* the handlers test after the await, here the expired token of the session
ExecRejected(m) ==
    /\ m.kind \in {"start", "stop", "manual"}
    /\ net' = Replace(m, Response(m, Null, "PGRST301"))
    /\ UNCHANGED <<time_entries, catalog, nextId, mounted, activeEntry,
                   selectedProject, tracker, toast, form, views>>

----------------------------------------------------------------------------
(* The store executes a statement of a client that calls its API directly *)

\* the store after the migration when two users have a project each, the first
\* user is a member of the second user's project and the first project has a task
InitShared ==
    /\ InitClients
    /\ projects = {[id |-> "p1", created_by |-> "A"], [id |-> "p2", created_by |-> "B"]}
    /\ project_members = {[project_id |-> "p2", user_id |-> "A", role |-> "member"]}
    /\ tasks = {[id |-> "t1", project_id |-> "p1"]}

\* { data, error } of a statement of user uid on time_entries, rows being the
\* rows it returned
ApiResult(uid, rows, error) ==
    [Request("api", uid, BlankRow) EXCEPT !.phase = "resp", !.rows = rows,
                                          !.error = error]

\* the row an UPDATE ... SET cols writes over old, before the triggers
PatchRow(old, cols, patch) ==
    [c \in DOMAIN old |-> IF c \in cols THEN patch[c] ELSE old[c]]

\* the row as the BEFORE UPDATE trigger leaves it
PatchedRow(old, cols, patch, now) ==
    calculate_time_entry_duration(PatchRow(old, cols, patch), Some(old), now)

\* variant: ON DELETE SET NULL writes the row without the BEFORE UPDATE trigger
\* and closes it
TaskDeleted_closing(rows, gone, now) ==
    {IF r.task_id # Null /\ Val(r.task_id) \in gone
     THEN [r EXCEPT !.task_id = Null, !.is_running = FALSE]
     ELSE r : r \in rows}

\* ON DELETE SET NULL of time_entries.task_id for the deleted tasks gone: an
\* UPDATE of the referencing rows, on which the BEFORE UPDATE trigger fires
TaskDeleted(rows, gone, now) ==
    {IF r.task_id # Null /\ Val(r.task_id) \in gone
     THEN PatchedRow(r, {"task_id"}, [task_id |-> Null], now)
     ELSE r : r \in rows}

\* select('*') on time_entries
ApiSelect(uid) ==
    /\ net = EmptyBag
    /\ net' = Send(ApiResult(uid, OwnRows(uid), ""))
    /\ UNCHANGED <<time_entries, catalog, nextId, mounted, activeEntry,
                   selectedProject, tracker, toast, form, views>>

\* insert(row) on time_entries
ApiInsert(uid, row, now) ==
    LET new == InsertRow([row |-> row], now)
    IN  /\ net = EmptyBag
        /\ IF InsertError(uid, new) = ""
           THEN /\ nextId <= MaxStoreRows
                /\ time_entries' = time_entries \cup {new}
                /\ nextId' = nextId + 1
                /\ net' = Send(ApiResult(uid, {new}, ""))
           ELSE /\ net' = Send(ApiResult(uid, {}, InsertError(uid, new)))
                /\ UNCHANGED <<time_entries, nextId>>
        /\ UNCHANGED <<catalog, mounted, activeEntry, selectedProject, tracker,
                       toast, form, views>>

\* update(patch).eq('id', id) on time_entries: the rows that pass the policy
\* USING; the new rows must pass it too, as the policy has no WITH CHECK
ApiUpdate(uid, id, cols, patch, now) ==
    LET hit == {r \in OwnRows(uid) : r.id = id}
        new == {PatchedRow(r, cols, patch, now) : r \in hit}
    IN  /\ net = EmptyBag
        /\ IF \A r \in new : r.user_id = uid
           THEN /\ time_entries' = (time_entries \ hit) \cup new
                /\ net' = Send(ApiResult(uid, new, ""))
           ELSE /\ net' = Send(ApiResult(uid, {}, "42501"))
                /\ UNCHANGED time_entries
        /\ UNCHANGED <<catalog, nextId, mounted, activeEntry, selectedProject,
                       tracker, toast, form, views>>

\* delete().eq('id', id) on time_entries
ApiDelete(uid, id) ==
    LET hit == {r \in OwnRows(uid) : r.id = id}
    IN  /\ net = EmptyBag
        /\ time_entries' = time_entries \ hit
        /\ net' = Send(ApiResult(uid, hit, ""))
        /\ UNCHANGED <<catalog, nextId, mounted, activeEntry, selectedProject,
                       tracker, toast, form, views>>

\* delete().eq('id', pid) on projects, under the policy "Project creators can
\* delete projects"; ON DELETE CASCADE removes the project's tasks, members and
\* time entries, and the removed tasks are set to null in the other time entries
ApiDeleteProject(uid, pid, now) ==
    LET hit == {q \in projects : q.id = pid /\ q.created_by = uid}
        gone == {q.id : q \in hit}
        goneTasks == {k.id : k \in {x \in tasks : x.project_id \in gone}}
    IN  /\ projects' = projects \ hit
        /\ project_members' = {pm \in project_members : pm.project_id \notin gone}
        /\ tasks' = {k \in tasks : k.project_id \notin gone}
        /\ time_entries' =
               TaskDeleted({r \in time_entries : r.project_id \notin gone}, goneTasks, now)
        /\ UNCHANGED <<nextId, net, mounted, activeEntry, selectedProject, tracker,
                       toast, form, views>>

\* delete().eq('id', tid) on tasks, under the policy "Project members can delete
\* tasks"
ApiDeleteTask(uid, tid, now) ==
    LET hit == {k \in tasks : /\ k.id = tid
                              /\ \E q \in projects :
                                     q.id = k.project_id /\ Visible(uid, q)}
        gone == {k.id : k \in hit}
    IN  /\ tasks' = tasks \ hit
        /\ time_entries' = TaskDeleted(time_entries, gone, now)
        /\ UNCHANGED <<projects, project_members, nextId, net, mounted, activeEntry,
                       selectedProject, tracker, toast, form, views>>

\* delete() of a member on project_members, under the policy "Project admins can
\* manage project members"
ApiDeleteMember(uid, pm) ==
    /\ pm \in project_members
    /\ \E q \in projects :
           /\ q.id = pm.project_id
           /\ \/ q.created_by = uid
              \/ \E a \in project_members :
                     a.project_id = q.id /\ a.user_id = uid /\ a.role = "admin"
    /\ project_members' = project_members \ {pm}
    /\ UNCHANGED <<time_entries, projects, tasks, nextId, net, mounted, activeEntry,
                   selectedProject, tracker, toast, form, views>>

\* the client reads the result
ApiDone(m) ==
    /\ net' = Receive(m)
    /\ UNCHANGED <<time_entries, catalog, nextId, mounted, activeEntry,
                   selectedProject, tracker, toast, form, views>>

----------------------------------------------------------------------------
(* TimeTracker *)

\* the call loadTasks(projectId) of the effect on [selectedProject]
LoadTasksRequest(s, p) == Request("loadTasks", s, [BlankRow EXCEPT !.project_id = p])

\* the effect on [user]: loadProjects(); loadActiveTimeEntry()
Mount(s) ==
    /\ ~mounted[s]
    /\ CanSend2
    /\ mounted' = [mounted EXCEPT ![s] = TRUE]
    /\ net' = Send2(Request("loadProjects", s, BlankRow),
                    Request("loadActive", s, [BlankRow EXCEPT !.user_id = SessionUser[s]]))
    /\ UNCHANGED <<time_entries, catalog, nextId, activeEntry, selectedProject,
                   tracker, toast, form, views>>

\* loadProjects after the await
LoadProjectsDone(m) ==
    /\ net' = Receive(m)
    /\ IF m.error # ""
       THEN /\ toast' = [toast EXCEPT ![m.sess] = "Error loading projects"]
            /\ UNCHANGED tracker
       ELSE /\ tracker' = [tracker EXCEPT ![m.sess].projects = m.list]
            /\ UNCHANGED toast
    /\ UNCHANGED <<time_entries, catalog, nextId, mounted, activeEntry,
                   selectedProject, form, views>>

\* loadTasks after the await
LoadTasksDone(m) ==
    /\ net' = Receive(m)
    /\ IF m.error # ""
       THEN /\ toast' = [toast EXCEPT ![m.sess] = "Error loading tasks"]
            /\ UNCHANGED tracker
       ELSE /\ tracker' = [tracker EXCEPT ![m.sess].tasks = m.list]
            /\ UNCHANGED toast
    /\ UNCHANGED <<time_entries, catalog, nextId, mounted, activeEntry,
                   selectedProject, form, views>>

\* variant: the timer effect without its cleanup
TimerEffect_leaking(tr, entry) ==
    [tr EXCEPT !.intervals =
        tr.intervals \cup (IF entry # Null /\ Val(entry).is_running
                           THEN {Val(entry)} ELSE {})]

\* the timer effect on [activeEntry]: the cleanup clears the interval of the
\* previous activeEntry, then a running activeEntry gets an interval whose
\* callback holds that entry
TimerEffect(tr, entry) ==
    [tr EXCEPT !.intervals =
        IF entry # Null /\ Val(entry).is_running THEN {Val(entry)} ELSE {}]

\* loadActiveTimeEntry after the await; when it changes selectedProject the
\* effect on [selectedProject] calls loadTasks
LoadActiveTimeEntryDone(m) ==
    /\ IF m.error # "" /\ m.error # "PGRST116"
       THEN /\ toast' = [toast EXCEPT ![m.sess] = "Error loading active timer"]
            /\ net' = Receive(m)
            /\ UNCHANGED <<activeEntry, selectedProject, tracker>>
       ELSE IF m.data # Null
            THEN /\ activeEntry' = [activeEntry EXCEPT ![m.sess] = m.data]
                 /\ selectedProject' =
                        [selectedProject EXCEPT ![m.sess] = Val(m.data).project_id]
                 /\ tracker' = [tracker EXCEPT ![m.sess] = TimerEffect(
                        [@ EXCEPT !.selectedTask =
                                      IF Val(m.data).task_id = Null THEN ""
                                      ELSE Val(Val(m.data).task_id),
                                  !.description = Val(m.data).description],
                        m.data)]
                 /\ net' = IF Val(m.data).project_id # selectedProject[m.sess]
                           THEN Receive(m) (+) SetToBag(
                                    {LoadTasksRequest(m.sess, Val(m.data).project_id)})
                           ELSE Receive(m)
                 /\ UNCHANGED toast
            ELSE /\ net' = Receive(m)
                 /\ UNCHANGED <<activeEntry, selectedProject, tracker, toast>>
    /\ UNCHANGED <<time_entries, catalog, nextId, mounted, form, views>>

\* the project Select, disabled while there is an active entry; its items are the
\* loaded projects; the effect on [selectedProject] calls loadTasks
SelectProject(s, p) ==
    /\ mounted[s]
    /\ activeEntry[s] = Null
    /\ p \in tracker[s].projects
    /\ selectedProject[s] # p
    /\ CanSend
    /\ selectedProject' = [selectedProject EXCEPT ![s] = p]
    /\ net' = Send(LoadTasksRequest(s, p))
    /\ UNCHANGED <<time_entries, catalog, nextId, mounted, activeEntry, tracker,
                   toast, form, views>>

\* the task Select, disabled while there is an active entry or no project; its
\* items are the loaded tasks
SelectTask(s, k) ==
    /\ mounted[s]
    /\ activeEntry[s] = Null
    /\ selectedProject[s] # ""
    /\ k \in tracker[s].tasks
    /\ tracker[s].selectedTask # k
    /\ tracker' = [tracker EXCEPT ![s].selectedTask = k]
    /\ UNCHANGED <<time_entries, catalog, nextId, net, mounted, activeEntry,
                   selectedProject, toast, form, views>>

\* the description Textarea
SetDescription(s, d) ==
    /\ mounted[s]
    /\ tracker[s].description # d
    /\ tracker' = [tracker EXCEPT ![s].description = d]
    /\ UNCHANGED <<time_entries, catalog, nextId, net, mounted, activeEntry,
                   selectedProject, toast, form, views>>

\* variant: the tick also saves the elapsed minutes in the stored entry
Tick_saving(s, now) ==
    /\ mounted[s]
    /\ \E e \in tracker[s].intervals :
           /\ tracker' = [tracker EXCEPT ![s].elapsedTime = now - e.start_time]
           /\ time_entries' =
                  {IF r.id = e.id
                   THEN [r EXCEPT !.duration_minutes =
                                      Some(DurationMinutes(r.start_time, now))]
                   ELSE r : r \in time_entries}
    /\ UNCHANGED <<catalog, nextId, net, mounted, activeEntry, selectedProject, toast,
                   form, views>>

\* the callback of a live interval of the timer effect, with the activeEntry it
\* was created for: Math.floor((now - startTime) / 1000)
Tick(s, now) ==
    /\ mounted[s]
    /\ \E e \in tracker[s].intervals :
           tracker' = [tracker EXCEPT ![s].elapsedTime = now - e.start_time]
    /\ UNCHANGED <<time_entries, catalog, nextId, net, mounted, activeEntry,
                   selectedProject, toast, form, views>>

\* the payload of startTimer's insert
StartRow(s, now) ==
    [BlankRow EXCEPT !.user_id = SessionUser[s],
                     !.project_id = selectedProject[s],
                     !.task_id = IF tracker[s].selectedTask = "" THEN Null
                                 ELSE Some(tracker[s].selectedTask),
                     !.description = tracker[s].description,
                     !.start_time = now,
                     !.is_running = TRUE]

\* variant: the payload leaves is_running to the column default
StartTimer_default(s, now) ==
    /\ mounted[s]
    /\ activeEntry[s] = Null
    /\ selectedProject[s] # ""
    /\ CanSend
    /\ net' = Send(Request("start", s, [StartRow(s, now) EXCEPT !.is_running = FALSE]))
    /\ UNCHANGED <<time_entries, catalog, nextId, mounted, activeEntry,
                   selectedProject, tracker, toast, form, views>>

\* variant: startTimer without the check of selectedProject
StartTimer_unchecked(s, now) ==
    /\ mounted[s]
    /\ activeEntry[s] = Null
    /\ CanSend
    /\ net' = Send(Request("start", s, StartRow(s, now)))
    /\ UNCHANGED <<time_entries, catalog, nextId, mounted, activeEntry,
                   selectedProject, tracker, toast, form, views>>

\* startTimer up to the await; the Start button is rendered when !activeEntry
StartTimer(s, now) ==
    /\ mounted[s]
    /\ activeEntry[s] = Null
    /\ selectedProject[s] # ""
    /\ CanSend
    /\ net' = Send(Request("start", s, StartRow(s, now)))
    /\ UNCHANGED <<time_entries, catalog, nextId, mounted, activeEntry,
                   selectedProject, tracker, toast, form, views>>

\* startTimer when no project is selected: the toast, then return
StartTimerRefused(s) ==
    /\ mounted[s]
    /\ activeEntry[s] = Null
    /\ selectedProject[s] = ""
    /\ toast' = [toast EXCEPT ![s] = "Project required"]
    /\ UNCHANGED <<time_entries, catalog, nextId, net, mounted, activeEntry,
                   selectedProject, tracker, form, views>>

\* startTimer after the await
StartTimerDone(m) ==
    /\ net' = Receive(m)
    /\ IF m.error # ""
       THEN /\ toast' = [toast EXCEPT ![m.sess] = "Error starting timer"]
            /\ UNCHANGED <<activeEntry, tracker>>
       ELSE /\ activeEntry' = [activeEntry EXCEPT ![m.sess] = m.data]
            /\ tracker' = [tracker EXCEPT ![m.sess] = TimerEffect(@, m.data)]
            /\ toast' = [toast EXCEPT ![m.sess] = "Timer started"]
    /\ UNCHANGED <<time_entries, catalog, nextId, mounted, selectedProject, form,
                   views>>

\* stopTimer up to the await; it returns at once when there is no activeEntry
StopTimer(s, now) ==
    /\ mounted[s]
    /\ activeEntry[s] # Null
    /\ CanSend
    /\ net' = Send(Request("stop", s,
                   [BlankRow EXCEPT !.id = Val(activeEntry[s]).id,
                                    !.is_running = FALSE,
                                    !.end_time = Some(now),
                                    !.description = tracker[s].description]))
    /\ UNCHANGED <<time_entries, catalog, nextId, mounted, activeEntry,
                   selectedProject, tracker, toast, form, views>>

\* stopTimer when there is no activeEntry: return
StopTimerRefused(s) ==
    /\ mounted[s]
    /\ activeEntry[s] = Null
    /\ UNCHANGED vars

\* variant: stopTimer clears its state whether or not the update failed
StopTimerDone_clearing(m) ==
    /\ net' = Receive(m)
    /\ activeEntry' = [activeEntry EXCEPT ![m.sess] = Null]
    /\ tracker' = [tracker EXCEPT ![m.sess] = TimerEffect(
                       [@ EXCEPT !.elapsedTime = 0, !.description = ""], Null)]
    /\ toast' = [toast EXCEPT ![m.sess] =
                    IF m.error # "" THEN "Error stopping timer" ELSE "Timer stopped"]
    /\ UNCHANGED <<time_entries, catalog, nextId, mounted, selectedProject, form,
                   views>>

\* stopTimer after the await
StopTimerDone(m) ==
    /\ net' = Receive(m)
    /\ IF m.error # ""
       THEN /\ toast' = [toast EXCEPT ![m.sess] = "Error stopping timer"]
            /\ UNCHANGED <<activeEntry, tracker>>
       ELSE /\ activeEntry' = [activeEntry EXCEPT ![m.sess] = Null]
            /\ tracker' = [tracker EXCEPT ![m.sess] = TimerEffect(
                               [@ EXCEPT !.elapsedTime = 0, !.description = ""],
                               Null)]
            /\ toast' = [toast EXCEPT ![m.sess] = "Timer stopped"]
    /\ UNCHANGED <<time_entries, catalog, nextId, mounted, selectedProject, form,
                   views>>

----------------------------------------------------------------------------
(* ManualTimeEntry *)

FormUnchanged ==
    UNCHANGED <<time_entries, catalog, nextId, net, mounted, activeEntry,
                selectedProject, tracker, toast, views>>

\* the effects of the first render: loadProjects() on [user], and the duration
\* effect
MountForm(s) ==
    /\ ~form[s].mounted
    /\ CanSend
    /\ form' = [form EXCEPT ![s] = DurationEffect([@ EXCEPT !.mounted = TRUE])]
    /\ net' = Send(Request("formProjects", s, BlankRow))
    /\ UNCHANGED <<time_entries, catalog, nextId, mounted, activeEntry,
                   selectedProject, tracker, toast, views>>

\* loadProjects of the form after the await
FormLoadProjectsDone(m) ==
    /\ net' = Receive(m)
    /\ IF m.error # ""
       THEN /\ toast' = [toast EXCEPT ![m.sess] = "Error loading projects"]
            /\ UNCHANGED form
       ELSE /\ form' = [form EXCEPT ![m.sess].projects = m.list]
            /\ UNCHANGED toast
    /\ UNCHANGED <<time_entries, catalog, nextId, mounted, activeEntry,
                   selectedProject, tracker, views>>

\* loadTasks of the form after the await; it also resets the selected task
FormLoadTasksDone(m) ==
    /\ net' = Receive(m)
    /\ IF m.error # ""
       THEN /\ toast' = [toast EXCEPT ![m.sess] = "Error loading tasks"]
            /\ UNCHANGED form
       ELSE /\ form' = [form EXCEPT ![m.sess].tasks = m.list,
                                    ![m.sess].selectedTask = ""]
            /\ UNCHANGED toast
    /\ UNCHANGED <<time_entries, catalog, nextId, mounted, activeEntry,
                   selectedProject, tracker, views>>

\* the project Select of the form; its items are the loaded projects; the effect
\* on [selectedProject] calls loadTasks
SetFormProject(s, p) ==
    /\ form[s].mounted
    /\ p \in form[s].projects
    /\ form[s].selectedProject # p
    /\ CanSend
    /\ form' = [form EXCEPT ![s].selectedProject = p]
    /\ net' = Send(Request("formTasks", s, [BlankRow EXCEPT !.project_id = p]))
    /\ UNCHANGED <<time_entries, catalog, nextId, mounted, activeEntry,
                   selectedProject, tracker, toast, views>>

\* the task Select of the form, disabled without a project; its items are the
\* loaded tasks
SetFormTask(s, k) ==
    /\ form[s].mounted
    /\ form[s].selectedProject # ""
    /\ k \in form[s].tasks
    /\ form[s].selectedTask # k
    /\ form' = [form EXCEPT ![s].selectedTask = k]
    /\ FormUnchanged

\* the date input; Null is the cleared field
SetDate(s, d) ==
    /\ form[s].mounted
    /\ form[s].date # d
    /\ form' = [form EXCEPT ![s] = Render(@, [@ EXCEPT !.date = d])]
    /\ FormUnchanged

\* the start time input, rendered in time-range mode
SetStartTime(s, t) ==
    /\ form[s].mounted
    /\ form[s].entryMode = "time-range"
    /\ form[s].startTime # t
    /\ form' = [form EXCEPT ![s] = Render(@, [@ EXCEPT !.startTime = t])]
    /\ FormUnchanged

\* the end time input, rendered in time-range mode
SetEndTime(s, t) ==
    /\ form[s].mounted
    /\ form[s].entryMode = "time-range"
    /\ form[s].endTime # t
    /\ form' = [form EXCEPT ![s] = Render(@, [@ EXCEPT !.endTime = t])]
    /\ FormUnchanged

\* the duration input, rendered in duration mode; Null is the cleared field
SetDuration(s, h) ==
    /\ form[s].mounted
    /\ form[s].entryMode = "duration"
    /\ form[s].duration # h
    /\ form' = [form EXCEPT ![s].duration = h]
    /\ FormUnchanged

\* the two mode buttons
SetEntryMode(s, mode) ==
    /\ form[s].mounted
    /\ form[s].entryMode # mode
    /\ form' = [form EXCEPT ![s] = Render(@, [@ EXCEPT !.entryMode = mode])]
    /\ FormUnchanged

\* startDateTime and endDateTime of handleSubmit; Null is Invalid Date
StartDateTime(f) ==
    IF f.entryMode = "time-range" THEN ParseDateTime(f.date, f.startTime)
                                  ELSE ParseDateTime(f.date, 540)

EndDateTime(f) ==
    IF f.entryMode = "time-range" THEN ParseDateTime(f.date, f.endTime)
    ELSE IF StartDateTime(f) = Null THEN Null
         ELSE Some(Val(StartDateTime(f)) + Val(f.duration) * 36)

\* the payload of handleSubmit's insert
ManualRow(s, f) ==
    [BlankRow EXCEPT !.user_id = SessionUser[s],
                     !.project_id = f.selectedProject,
                     !.task_id = IF f.selectedTask = "" THEN Null
                                 ELSE Some(f.selectedTask),
                     !.description = f.description,
                     !.start_time = Val(StartDateTime(f)),
                     !.end_time = EndDateTime(f),
                     !.duration_minutes = Some(ClientDurationMinutes(Val(f.duration))),
                     !.is_running = FALSE]

\* handleSubmit up to the await.  The button is disabled while loading, without a
\* project or with an empty duration; an invalid duration returns before
\* setLoading(true); toISOString() of an Invalid Date throws after it
HandleSubmit(s) ==
    /\ form[s].mounted
    /\ ~form[s].loading
    /\ form[s].selectedProject # ""
    /\ ValidDuration(form[s].duration)
    /\ form' = [form EXCEPT ![s].loading = TRUE]
    /\ IF StartDateTime(form[s]) = Null
       THEN UNCHANGED net
       ELSE /\ CanSend
            /\ net' = Send(Request("manual", s, ManualRow(s, form[s])))
    /\ UNCHANGED <<time_entries, catalog, nextId, mounted, activeEntry,
                   selectedProject, tracker, toast, views>>

\* handleSubmit when a check fails: the toast, then return.  The handler as it is
\* called, whether or not the button is enabled
HandleSubmitRefused(s) ==
    /\ form[s].mounted
    /\ \/ /\ form[s].selectedProject = ""
          /\ toast' = [toast EXCEPT ![s] = "Project required"]
       \/ /\ form[s].selectedProject # ""
          /\ ~ValidDuration(form[s].duration)
          /\ toast' = [toast EXCEPT ![s] = "Invalid duration"]
    /\ UNCHANGED <<time_entries, catalog, nextId, net, mounted, activeEntry,
                   selectedProject, tracker, form, views>>

\* the "Reset form" block of handleSubmit
ResetForm(f) ==
    [f EXCEPT !.description = "", !.duration = Null, !.startTime = 540,
              !.endTime = 600, !.selectedTask = ""]

\* handleSubmit after the await
HandleSubmitDone(m) ==
    /\ net' = Receive(m)
    /\ form' = [form EXCEPT ![m.sess] =
                   IF m.error # ""
                   THEN [@ EXCEPT !.loading = FALSE]
                   ELSE Render(@, [ResetForm(@) EXCEPT !.loading = FALSE])]
    /\ toast' = [toast EXCEPT ![m.sess] =
                    IF m.error # "" THEN "Error adding time entry"
                    ELSE "Time entry added"]
    /\ UNCHANGED <<time_entries, catalog, nextId, mounted, activeEntry,
                   selectedProject, tracker, views>>

----------------------------------------------------------------------------
(* Reports *)

\* the name column of the stored projects
ProjectName == [p \in ProjectIds |-> IF p = "p1" THEN "Web" ELSE "App"]

\* the messages of the given kind that session s has in flight
InFlight(kind, s) ==
    LET ms == {m \in BagToSet(net) : m.kind = kind /\ m.sess = s}
        RECURSIVE Count(_)
        Count(S) == IF S = {} THEN 0
                    ELSE LET m == CHOOSE x \in S : TRUE
                         IN  CopiesIn(m, net) + Count(S \ {m})
    IN  Count(ms)

\* the sequences that list the rows S by start_time, latest first; rows with the
\* same start_time come in any order
RECURSIVE OrderedByStartDesc(_)
OrderedByStartDesc(S) ==
    IF S = {} THEN {<<>>}
    ELSE UNION {{<<r>> \o q : q \in OrderedByStartDesc(S \ {r})} :
                   r \in {x \in S : \A y \in S : x.start_time >= y.start_time}}

\* the columns that loadTimeEntries selects of row r; the embedded project is
\* null when the policy on projects hides it from uid
SelectedColumns(uid, r) ==
    [id |-> r.id, project_id |-> r.project_id, task_id |-> r.task_id,
     duration_minutes |-> r.duration_minutes, start_time |-> r.start_time,
     description |-> r.description,
     projects |-> IF \E q \in projects : q.id = r.project_id /\ Visible(uid, q)
                  THEN Some(ProjectName[r.project_id]) ELSE Null]

\* variant: the query of loadTimeEntries without its filter on duration_minutes
ReportRows_unfiltered(uid, f) ==
    {r \in OwnRows(uid) :
        /\ r.user_id = f.user_id
        /\ r.start_time >= f.from
        /\ r.start_time <= f.to
        /\ (f.project_id = "all" \/ r.project_id = f.project_id)}

\* the rows that the query of loadTimeEntries with filter f returns to uid
ReportRows(uid, f) ==
    {r \in OwnRows(uid) :
        /\ r.user_id = f.user_id
        /\ r.start_time >= f.from
        /\ r.start_time <= f.to
        /\ r.duration_minutes # Null
        /\ (f.project_id = "all" \/ r.project_id = f.project_id)}

\* the query of loadTimeEntries is executed
ExecLoadTimeEntries(m) ==
    /\ \E seq \in OrderedByStartDesc(ReportRows(SessionUser[m.sess], m.row)) :
           net' = Replace(m, Response(m,
                      Some([i \in DOMAIN seq |->
                               SelectedColumns(SessionUser[m.sess], seq[i])]), ""))
    /\ UNCHANGED <<time_entries, catalog, nextId, mounted, activeEntry,
                   selectedProject, tracker, toast, form, views>>

\* a run of the effect on [user, selectedProject, dateRange] may start: the
\* requests it sends fit in flight
CanLoadReports(s) ==
    /\ InFlight("reportProjects", s) < MaxReportLoads
    /\ InFlight("report", s) < MaxReportLoads

\* the effect on [user, selectedProject, dateRange] for the state r of the page:
\* loadProjects(), and loadTimeEntries() up to its await, which returns at once
\* for a date range without from or to
ReportEffect(s, r) ==
    /\ IF r.dateRange.from = Null \/ r.dateRange.to = Null
       THEN /\ reports' = [reports EXCEPT ![s] = r]
            /\ net' = Send(Request("reportProjects", s, BlankRow))
       ELSE /\ reports' = [reports EXCEPT ![s] = [r EXCEPT !.loading = TRUE]]
            /\ net' = Send2(Request("reportProjects", s, BlankRow),
                            Request("report", s,
                                [user_id |-> SessionUser[s],
                                 project_id |-> r.selectedProject,
                                 from |-> Val(r.dateRange.from),
                                 to |-> Val(r.dateRange.to)]))
    /\ UNCHANGED <<time_entries, catalog, nextId, mounted, activeEntry,
                   selectedProject, tracker, toast, form, stats>>

\* the first render of Reports
MountReports(s) ==
    /\ ~reports[s].mounted
    /\ CanLoadReports(s)
    /\ ReportEffect(s, [reports[s] EXCEPT !.mounted = TRUE])

\* the project Select of Reports: "all" or one of the loaded projects
SetReportProject(s, p) ==
    /\ reports[s].mounted
    /\ p \in {"all"} \cup reports[s].projects
    /\ reports[s].selectedProject # p
    /\ CanLoadReports(s)
    /\ ReportEffect(s, [reports[s] EXCEPT !.selectedProject = p])

\* the date picker and the quick range buttons of Reports
SetDateRange(s, range) ==
    /\ reports[s].mounted
    /\ reports[s].dateRange # range
    /\ CanLoadReports(s)
    /\ ReportEffect(s, [reports[s] EXCEPT !.dateRange = range])

\* loadProjects of Reports after the await
ReportProjectsDone(m) ==
    /\ net' = Receive(m)
    /\ IF m.error # ""
       THEN /\ toast' = [toast EXCEPT ![m.sess] = "Error loading projects"]
            /\ UNCHANGED reports
       ELSE /\ reports' = [reports EXCEPT ![m.sess].projects = m.list]
            /\ UNCHANGED toast
    /\ UNCHANGED <<time_entries, catalog, nextId, mounted, activeEntry,
                   selectedProject, tracker, form, stats>>

\* loadTimeEntries after the await
LoadTimeEntriesDone(m) ==
    /\ net' = Receive(m)
    /\ IF m.error # ""
       THEN /\ toast' = [toast EXCEPT ![m.sess] = "Error loading time entries"]
            /\ reports' = [reports EXCEPT ![m.sess].loading = FALSE]
       ELSE /\ reports' = [reports EXCEPT ![m.sess].timeEntries = Val(m.data),
                                          ![m.sess].loading = FALSE]
            /\ UNCHANGED toast
    /\ UNCHANGED <<time_entries, catalog, nextId, mounted, activeEntry,
                   selectedProject, tracker, form, stats>>

\* the keys that the accumulator {} of a reduce inherits from Object.prototype,
\* among the names of ChartNames: acc[key] is truthy before any entry is added
InheritedKeys == {"constructor"}

\* (entry.duration_minutes || 0), the hours of an entry as minutes
MinutesOf(entry) ==
    IF entry.duration_minutes = Null THEN 0 ELSE Val(entry.duration_minutes)

\* format(new Date(entry.start_time), 'MMM dd') for instants of one year: the day,
\* which is never an inherited key
DayKey(entry) == entry.start_time \div Day

\* one step of the reduce of a chart: if (!acc[key]) acc[key] = {name, hours: 0};
\* acc[key].hours += hours. For an inherited key the sum is written on the
\* inherited object and acc gets no property
AddToTotals(acc, key, inherited, minutes) ==
    IF inherited THEN acc
    ELSE IF \E i \in DOMAIN acc : acc[i].name = key
    THEN [i \in DOMAIN acc |->
             IF acc[i].name = key THEN [acc[i] EXCEPT !.hours = @ + minutes]
             ELSE acc[i]]
    ELSE Append(acc, [name |-> key, hours |-> minutes])

\* Object.values of the reduce of getProjectChartData over the first n entries,
\* in the order in which the keys were added; every entry has a project
RECURSIVE ProjectTotals(_, _)
ProjectTotals(entries, n) ==
    IF n = 0 THEN <<>>
    ELSE AddToTotals(ProjectTotals(entries, n - 1), Val(entries[n].projects),
                     Val(entries[n].projects) \in InheritedKeys, MinutesOf(entries[n]))

\* .sort((a, b) => b.hours - a.hours), a stable sort
RECURSIVE SortByHoursDesc(_)
SortByHoursDesc(groups) ==
    IF groups = <<>> THEN <<>>
    ELSE LET rest == SortByHoursDesc(Tail(groups))
             k == Cardinality({i \in DOMAIN rest : rest[i].hours > Head(groups).hours})
         IN  SubSeq(rest, 1, k) \o <<Head(groups)>> \o SubSeq(rest, k + 1, Len(rest))

\* getProjectChartData; entry.projects.name throws a TypeError when the embedded
\* project is null
GetProjectChartData(entries) ==
    IF \E i \in DOMAIN entries : entries[i].projects = Null
    THEN [error |-> "TypeError", data |-> <<>>]
    ELSE [error |-> "", data |-> SortByHoursDesc(ProjectTotals(entries, Len(entries)))]

\* getDailyChartData: Object.values of its reduce over the first n entries
RECURSIVE GetDailyChartData(_, _)
GetDailyChartData(entries, n) ==
    IF n = 0 THEN <<>>
    ELSE AddToTotals(GetDailyChartData(entries, n - 1), DayKey(entries[n]), FALSE,
                     MinutesOf(entries[n]))

\* getTotalHours over the first n entries
RECURSIVE GetTotalHours(_, _)
GetTotalHours(entries, n) ==
    IF n = 0 THEN 0 ELSE GetTotalHours(entries, n - 1) + MinutesOf(entries[n])

\* a render of Reports with its loaded entries: the total and the two charts; a
\* TypeError in getProjectChartData leaves nothing rendered
RenderReports(s) ==
    /\ reports[s].mounted
    /\ ~reports[s].charts.rendered
    /\ LET entries == reports[s].timeEntries
           byProject == GetProjectChartData(entries)
       IN  reports' = [reports EXCEPT ![s].charts =
               IF byProject.error # ""
               THEN [@ EXCEPT !.rendered = TRUE, !.error = byProject.error]
               ELSE [rendered |-> TRUE, error |-> "",
                     project |-> byProject.data,
                     daily |-> GetDailyChartData(entries, Len(entries)),
                     total |-> GetTotalHours(entries, Len(entries))]]
    /\ UNCHANGED <<time_entries, catalog, nextId, net, mounted, activeEntry,
                   selectedProject, tracker, toast, form, stats>>

----------------------------------------------------------------------------
(* DashboardStats *)

\* new Date(today.getFullYear(), today.getMonth(), today.getDate())
StartOfDay(today) == today - (today % Day)

\* today.getDay(), 0 for Sunday
GetDay(today) == (today \div Day) % 7

\* startOfWeek of loadStats: a copy of today moved back by getDay() days by
\* setDate, which keeps the time of day
StartOfWeekOfStats(today) == today - GetDay(today) * Day

\* the reduce of loadStats over the durations of the returned rows, in minutes
RECURSIVE SumMinutes(_)
SumMinutes(S) ==
    IF S = {} THEN 0
    ELSE LET r == CHOOSE x \in S : TRUE
         IN  (IF r.duration_minutes = Null THEN 0 ELSE Val(r.duration_minutes))
             + SumMinutes(S \ {r})

\* the rows that a query of loadStats for the entries since `from` returns to uid
StatsRows(uid, user_id, from) ==
    {r \in OwnRows(uid) :
        r.user_id = user_id /\ r.start_time >= from /\ r.duration_minutes # Null}

\* the effect on [user]: loadStats up to its first await; the awaits that follow
\* keep today's totals and the two dates in the closure of the call
MountStats(s, today) ==
    /\ ~stats[s].mounted
    /\ stats' = [stats EXCEPT ![s].mounted = TRUE]
    /\ net' = Send(Request("statsToday", s,
                   [user_id |-> SessionUser[s], startOfDay |-> StartOfDay(today),
                    startOfWeek |-> StartOfWeekOfStats(today),
                    today |-> 0, week |-> 0, projectCount |-> Null]))
    /\ UNCHANGED <<time_entries, catalog, nextId, mounted, activeEntry,
                   selectedProject, tracker, toast, form, reports>>

\* the store executes one of the two queries of loadStats on time_entries
ExecStatsEntries(m) ==
    /\ m.kind \in {"statsToday", "statsWeek"}
    /\ net' = Replace(m, [Response(m, Null, "") EXCEPT !.rows =
                  StatsRows(SessionUser[m.sess], m.row.user_id,
                            IF m.kind = "statsToday" THEN m.row.startOfDay
                            ELSE m.row.startOfWeek)])
    /\ UNCHANGED <<time_entries, catalog, nextId, mounted, activeEntry,
                   selectedProject, tracker, toast, form, views>>

\* the store executes one of the two count queries of loadStats: the projects
\* the user sees, and the tasks completed this week, of which there are none
ExecStatsCount(m) ==
    /\ m.kind \in {"statsProjects", "statsTasks"}
    /\ net' = Replace(m, Response(m,
                  IF m.kind = "statsProjects"
                  THEN Some(Cardinality({q \in projects : Visible(SessionUser[m.sess], q)}))
                  ELSE Some(0), ""))
    /\ UNCHANGED <<time_entries, catalog, nextId, mounted, activeEntry,
                   selectedProject, tracker, toast, form, views>>

\* loadStats after one of its first three awaits: the next query
StatsQueryDone(m) ==
    /\ m.kind \in {"statsToday", "statsWeek", "statsProjects"}
    /\ net' = Receive(m) (+) SetToBag({
           IF m.kind = "statsToday"
           THEN Request("statsWeek", m.sess, [m.row EXCEPT !.today = SumMinutes(m.rows)])
           ELSE IF m.kind = "statsWeek"
           THEN Request("statsProjects", m.sess,
                        [m.row EXCEPT !.week = SumMinutes(m.rows)])
           ELSE Request("statsTasks", m.sess, [m.row EXCEPT !.projectCount = m.data])})
    /\ UNCHANGED <<time_entries, catalog, nextId, mounted, activeEntry,
                   selectedProject, tracker, toast, form, views>>

\* loadStats after its last await: setStats
LoadStatsDone(m) ==
    /\ net' = Receive(m)
    /\ stats' = [stats EXCEPT ![m.sess] =
                    [@ EXCEPT !.todayHours = m.row.today,
                              !.weekHours = m.row.week,
                              !.activeProjects =
                                  IF m.row.projectCount = Null THEN 0
                                  ELSE Val(m.row.projectCount),
                              !.completedTasks =
                                  IF m.data = Null THEN 0 ELSE Val(m.data)]]
    /\ UNCHANGED <<time_entries, catalog, nextId, mounted, activeEntry,
                   selectedProject, tracker, toast, form, reports>>

----------------------------------------------------------------------------
(* The specifications *)

\* the actions of the store and of TimeTracker, for the sessions ss
TimerNext(ss) ==
    \/ \E s \in ss : Mount(s)
    \/ \E s \in ss, p \in Projects : SelectProject(s, p)
    \/ \E s \in ss, now \in StartInstants : StartTimer(s, now)
    \/ \E s \in ss, now \in StopInstants : StopTimer(s, now)
    \/ \E m \in Requests("loadProjects") : ExecLoadProjects(m)
    \/ \E m \in Requests("loadTasks") : ExecLoadTasks(m)
    \/ \E m \in Requests("loadActive") : ExecLoadActive(m)
    \/ \E m \in Requests("start"), now \in Instants : ExecStartInsert(m, now)
    \/ \E m \in Requests("stop"), now \in Instants : ExecStopUpdate(m, now)
    \/ \E m \in Responses("loadProjects") : LoadProjectsDone(m)
    \/ \E m \in Responses("loadTasks") : LoadTasksDone(m)
    \/ \E m \in Responses("loadActive") : LoadActiveTimeEntryDone(m)
    \/ \E m \in Responses("start") : StartTimerDone(m)
    \/ \E m \in Responses("stop") : StopTimerDone(m)

\* the timer of one session
Next == TimerNext(OneSession)

Spec == Init /\ [][Next]_vars

\* the timers of two sessions of one owner
NextTwo == TimerNext(Sessions)

SpecTwo == Init /\ [][NextTwo]_vars

\* the manual-entry form of one session
NextManual ==
    \/ \E s \in OneSession : MountForm(s)
    \/ \E m \in Requests("formProjects") : ExecLoadProjects(m)
    \/ \E m \in Requests("formTasks") : ExecLoadTasks(m)
    \/ \E m \in Responses("formProjects") : FormLoadProjectsDone(m)
    \/ \E m \in Responses("formTasks") : FormLoadTasksDone(m)
    \/ \E s \in OneSession, p \in Projects : SetFormProject(s, p)
    \/ \E s \in OneSession, d \in {Null} \cup {Some(x) : x \in Dates} : SetDate(s, d)
    \/ \E s \in OneSession, t \in TimeOptions : SetStartTime(s, t)
    \/ \E s \in OneSession, t \in TimeOptions : SetEndTime(s, t)
    \/ \E s \in OneSession, h \in {Null} \cup {Some(x) : x \in DurationInputs} :
           SetDuration(s, h)
    \/ \E s \in OneSession, mode \in {"time-range", "duration"} : SetEntryMode(s, mode)
    \/ \E s \in OneSession : HandleSubmit(s)
    \/ \E m \in Requests("manual"), now \in Instants :
           nextId <= MaxManual /\ ExecManualInsert(m, now)
    \/ \E m \in Responses("manual") : HandleSubmitDone(m)

SpecManual == Init /\ [][NextManual]_vars

\* the store under statements of two users who call its API directly
NextStore ==
    \/ \E u \in Users : ApiSelect(u)
    \/ \E u \in Users, row \in StoreRows, now \in StopInstants : ApiInsert(u, row, now)
    \/ \E u \in Users, id \in 1 .. MaxStoreRows, cp \in StorePatches, now \in StopInstants :
           ApiUpdate(u, id, cp[1], cp[2], now)
    \/ \E u \in Users, id \in 1 .. MaxStoreRows : ApiDelete(u, id)
    \/ \E u \in Users, p \in ProjectIds, now \in StopInstants : ApiDeleteProject(u, p, now)
    \/ \E u \in Users, k \in TaskIds, now \in StopInstants : ApiDeleteTask(u, k, now)
    \/ \E u \in Users, pm \in project_members : ApiDeleteMember(u, pm)
    \/ \E m \in Responses("api") : ApiDone(m)

SpecStore == InitShared /\ [][NextStore]_vars

\* the timer of one session of the first user, who picks among two projects and a
\* task, while the users delete projects, tasks and members
NextShared ==
    \/ \E s \in OneSession : Mount(s)
    \/ \E s \in OneSession, p \in ProjectIds : SelectProject(s, p)
    \/ \E s \in OneSession, k \in TaskIds : SelectTask(s, k)
    \/ \E s \in OneSession, now \in SharedInstants : StartTimer(s, now)
    \/ \E s \in OneSession, now \in SharedInstants : StopTimer(s, now)
    \/ \E m \in Requests("loadProjects") : ExecLoadProjects(m)
    \/ \E m \in Requests("loadTasks") : ExecLoadTasks(m)
    \/ \E m \in Requests("loadActive") : ExecLoadActive(m)
    \/ \E m \in Requests("start"), now \in SharedInstants :
           nextId <= MaxStoreRows /\ ExecStartInsert(m, now)
    \/ \E m \in Requests("stop"), now \in SharedInstants : ExecStopUpdate(m, now)
    \/ \E m \in Responses("loadProjects") : LoadProjectsDone(m)
    \/ \E m \in Responses("loadTasks") : LoadTasksDone(m)
    \/ \E m \in Responses("loadActive") : LoadActiveTimeEntryDone(m)
    \/ \E m \in Responses("start") : StartTimerDone(m)
    \/ \E m \in Responses("stop") : StopTimerDone(m)
    \/ \E u \in Users, p \in ProjectIds, now \in SharedInstants :
           ApiDeleteProject(u, p, now)
    \/ \E u \in Users, k \in TaskIds, now \in SharedInstants : ApiDeleteTask(u, k, now)
    \/ \E u \in Users, pm \in project_members : ApiDeleteMember(u, pm)

SpecShared == InitShared /\ [][NextShared]_vars

\* the timer of one session with its task, its description and the ticks of its
\* clock
NextTick ==
    \/ \E s \in OneSession : Mount(s)
    \/ \E s \in OneSession, p \in Projects : SelectProject(s, p)
    \/ \E s \in OneSession, k \in TaskIds : SelectTask(s, k)
    \/ \E s \in OneSession, d \in Descriptions : SetDescription(s, d)
    \/ \E s \in OneSession, now \in SharedInstants : StartTimer(s, now)
    \/ \E s \in OneSession, now \in TickInstants : Tick(s, now)
    \/ \E s \in OneSession, now \in SharedInstants : StopTimer(s, now)
    \/ \E m \in Requests("loadProjects") : ExecLoadProjects(m)
    \/ \E m \in Requests("loadTasks") : ExecLoadTasks(m)
    \/ \E m \in Requests("loadActive") : ExecLoadActive(m)
    \/ \E m \in Requests("start"), now \in SharedInstants :
           nextId <= MaxStoreRows /\ ExecStartInsert(m, now)
    \/ \E m \in Requests("stop"), now \in SharedInstants : ExecStopUpdate(m, now)
    \/ \E m \in Responses("loadProjects") : LoadProjectsDone(m)
    \/ \E m \in Responses("loadTasks") : LoadTasksDone(m)
    \/ \E m \in Responses("loadActive") : LoadActiveTimeEntryDone(m)
    \/ \E m \in Responses("start") : StartTimerDone(m)
    \/ \E m \in Responses("stop") : StopTimerDone(m)

SpecTick == InitShared /\ [][NextTick]_vars

\* the timer and the manual-entry form of one session, with the calls of their
\* handlers that fail a check
NextChecks ==
    \/ \E s \in OneSession : Mount(s)
    \/ \E s \in OneSession : MountForm(s)
    \/ \E s \in OneSession, p \in Projects : SelectProject(s, p)
    \/ \E s \in OneSession, p \in Projects : SetFormProject(s, p)
    \/ \E s \in OneSession, mode \in {"time-range", "duration"} : SetEntryMode(s, mode)
    \/ \E s \in OneSession, h \in {Null} \cup {Some(x) : x \in DurationInputs} :
           SetDuration(s, h)
    \/ \E s \in OneSession, now \in SharedInstants : StartTimer(s, now)
    \/ \E s \in OneSession : StartTimerRefused(s)
    \/ \E s \in OneSession, now \in SharedInstants : StopTimer(s, now)
    \/ \E s \in OneSession : StopTimerRefused(s)
    \/ \E s \in OneSession : HandleSubmit(s)
    \/ \E s \in OneSession : HandleSubmitRefused(s)
    \/ \E m \in Requests("loadProjects") \cup Requests("formProjects") :
           ExecLoadProjects(m)
    \/ \E m \in Requests("loadTasks") \cup Requests("formTasks") : ExecLoadTasks(m)
    \/ \E m \in Requests("loadActive") : ExecLoadActive(m)
    \/ \E m \in Requests("start"), now \in SharedInstants :
           nextId <= MaxStoreRows /\ ExecStartInsert(m, now)
    \/ \E m \in Requests("manual"), now \in SharedInstants :
           nextId <= MaxStoreRows /\ ExecManualInsert(m, now)
    \/ \E m \in Requests("stop"), now \in SharedInstants : ExecStopUpdate(m, now)
    \/ \E m \in Responses("loadProjects") : LoadProjectsDone(m)
    \/ \E m \in Responses("formProjects") : FormLoadProjectsDone(m)
    \/ \E m \in Responses("loadTasks") : LoadTasksDone(m)
    \/ \E m \in Responses("formTasks") : FormLoadTasksDone(m)
    \/ \E m \in Responses("loadActive") : LoadActiveTimeEntryDone(m)
    \/ \E m \in Responses("start") : StartTimerDone(m)
    \/ \E m \in Responses("stop") : StopTimerDone(m)
    \/ \E m \in Responses("manual") : HandleSubmitDone(m)

SpecChecks == Init /\ [][NextChecks]_vars

\* the page of the first user once both components have mounted, their projects
\* have loaded and project p1, with its tasks, is selected in both
InitLoaded ==
    /\ time_entries = {}
    /\ nextId = 1
    /\ net = EmptyBag
    /\ projects = {[id |-> "p1", created_by |-> "A"], [id |-> "p2", created_by |-> "B"]}
    /\ project_members = {[project_id |-> "p2", user_id |-> "A", role |-> "member"]}
    /\ tasks = {[id |-> "t1", project_id |-> "p1"]}
    /\ mounted = [s \in Sessions |-> s \in OneSession]
    /\ activeEntry = [s \in Sessions |-> Null]
    /\ selectedProject = [s \in Sessions |-> IF s \in OneSession THEN "p1" ELSE ""]
    /\ tracker = [s \in Sessions |->
                     IF s \in OneSession
                     THEN [InitialTracker EXCEPT !.projects = {"p1", "p2"}, !.tasks = {"t1"}]
                     ELSE InitialTracker]
    /\ toast = [s \in Sessions |-> ""]
    /\ form = [s \in Sessions |->
                  IF s \in OneSession
                  THEN [DurationEffect(InitialForm) EXCEPT
                            !.mounted = TRUE, !.projects = {"p1", "p2"},
                            !.selectedProject = "p1", !.tasks = {"t1"}]
                  ELSE InitialForm]
    /\ reports = [s \in Sessions |-> InitialReports]
    /\ stats = [s \in Sessions |-> InitialStats]

\* the timer and the manual-entry form of one session when the API rejects some
\* of their writes
NextReject ==
    \/ \E s \in OneSession, d \in Descriptions : SetDescription(s, d)
    \/ \E s \in OneSession, now \in SharedInstants : StartTimer(s, now)
    \/ \E s \in OneSession, now \in TickInstants : Tick(s, now)
    \/ \E s \in OneSession, now \in SharedInstants : StopTimer(s, now)
    \/ \E s \in OneSession : HandleSubmit(s)
    \/ \E m \in Requests("start"), now \in SharedInstants :
           nextId <= MaxStoreRows /\ ExecStartInsert(m, now)
    \/ \E m \in Requests("manual"), now \in SharedInstants :
           nextId <= MaxStoreRows /\ ExecManualInsert(m, now)
    \/ \E m \in Requests("stop"), now \in SharedInstants : ExecStopUpdate(m, now)
    \/ \E m \in Requests("start") \cup Requests("stop") \cup Requests("manual") :
           ExecRejected(m)
    \/ \E m \in Responses("start") : StartTimerDone(m)
    \/ \E m \in Responses("stop") : StopTimerDone(m)
    \/ \E m \in Responses("manual") : HandleSubmitDone(m)

SpecReject == InitLoaded /\ [][NextReject]_vars

\* the first user's entry of 09:00:00 to 10:30:00 on the shared project, closed
ClosedEntryOfA ==
    [BlankRow EXCEPT !.id = 1, !.user_id = "A", !.project_id = "p2",
                     !.start_time = 32400, !.end_time = Some(37800),
                     !.duration_minutes = Some(90)]

\* the first user's entry started at 10:30:00 on a task of their own project,
\* running
RunningEntryOfA ==
    [BlankRow EXCEPT !.id = 2, !.user_id = "A", !.project_id = "p1",
                     !.task_id = Some("t1"), !.start_time = 37800,
                     !.is_running = TRUE]

\* the second user's entry of 09:00:00 to 09:45:00 on the shared project, closed
ClosedEntryOfB ==
    [BlankRow EXCEPT !.id = 3, !.user_id = "B", !.project_id = "p2",
                     !.start_time = 32400, !.end_time = Some(35100),
                     !.duration_minutes = Some(45)]

\* the page of the first user while their second timer runs: both users have
\* stored entries, and neither Reports nor DashboardStats is mounted yet
InitViews ==
    /\ time_entries = {ClosedEntryOfA, RunningEntryOfA, ClosedEntryOfB}
    /\ nextId = 4
    /\ net = EmptyBag
    /\ projects = {[id |-> "p1", created_by |-> "A"], [id |-> "p2", created_by |-> "B"]}
    /\ project_members = {[project_id |-> "p2", user_id |-> "A", role |-> "member"]}
    /\ tasks = {[id |-> "t1", project_id |-> "p1"]}
    /\ mounted = [s \in Sessions |-> s \in OneSession]
    /\ activeEntry = [s \in Sessions |->
                         IF s \in OneSession THEN Some(RunningEntryOfA) ELSE Null]
    /\ selectedProject = [s \in Sessions |-> IF s \in OneSession THEN "p1" ELSE ""]
    /\ tracker = [s \in Sessions |->
                     IF s \in OneSession
                     THEN [InitialTracker EXCEPT !.projects = {"p1", "p2"},
                                                 !.tasks = {"t1"}, !.selectedTask = "t1",
                                                 !.intervals = {RunningEntryOfA}]
                     ELSE InitialTracker]
    /\ toast = [s \in Sessions |-> IF s \in OneSession THEN "Timer started" ELSE ""]
    /\ form = [s \in Sessions |-> InitialForm]
    /\ reports = [s \in Sessions |-> InitialReports]
    /\ stats = [s \in Sessions |-> InitialStats]

\* the Reports page and the DashboardStats of one session while the session's
\* running timer is stopped
NextViews ==
    \/ \E s \in OneSession, d \in Descriptions : SetDescription(s, d)
    \/ \E s \in OneSession, now \in ViewInstants : StopTimer(s, now)
    \/ \E m \in Requests("stop"), now \in ViewInstants : ExecStopUpdate(m, now)
    \/ \E m \in Responses("stop") : StopTimerDone(m)
    \/ \E s \in OneSession : MountReports(s)
    \/ \E m \in Requests("reportProjects") : ExecLoadProjects(m)
    \/ \E m \in Requests("report") : ExecLoadTimeEntries(m)
    \/ \E m \in Responses("reportProjects") : ReportProjectsDone(m)
    \/ \E m \in Responses("report") : LoadTimeEntriesDone(m)
    \/ \E s \in OneSession, today \in ViewInstants : MountStats(s, today)
    \/ \E m \in Requests("statsToday") \cup Requests("statsWeek") : ExecStatsEntries(m)
    \/ \E m \in Requests("statsProjects") \cup Requests("statsTasks") : ExecStatsCount(m)
    \/ \E m \in Responses("statsToday") \cup Responses("statsWeek")
                \cup Responses("statsProjects") : StatsQueryDone(m)
    \/ \E m \in Responses("statsTasks") : LoadStatsDone(m)

SpecViews == InitViews /\ [][NextViews]_vars

\* the instants at which the dashboard is opened: a Sunday at 08:30 and at
\* 12:00, and the Wednesday after it at 12:00
StatsInstants == {30600, 43200, 3 * Day + 43200}

\* the dashboard of one session, opened on one of these days, while its timer is
\* stopped
NextStats ==
    \/ \E s \in OneSession, d \in Descriptions : SetDescription(s, d)
    \/ \E s \in OneSession, now \in ViewInstants : StopTimer(s, now)
    \/ \E m \in Requests("stop"), now \in ViewInstants : ExecStopUpdate(m, now)
    \/ \E m \in Responses("stop") : StopTimerDone(m)
    \/ \E s \in OneSession, today \in StatsInstants : MountStats(s, today)
    \/ \E m \in Requests("statsToday") \cup Requests("statsWeek") : ExecStatsEntries(m)
    \/ \E m \in Requests("statsProjects") \cup Requests("statsTasks") : ExecStatsCount(m)
    \/ \E m \in Responses("statsToday") \cup Responses("statsWeek")
                \cup Responses("statsProjects") : StatsQueryDone(m)
    \/ \E m \in Responses("statsTasks") : LoadStatsDone(m)

SpecStats == InitViews /\ [][NextStats]_vars

\* the names of the projects, the start times and the minutes of the entries of
\* SpecCharts: two days, and a project that the policy on projects hides
ChartNames == {"Web", "App", "constructor"}
ChartStarts == {32400, Day + 32400}
ChartMinutes == {30, 90}

\* the lists of n entries that loadTimeEntries can have stored in timeEntries
ChartInputs(n) ==
    {[i \in 1..n |->
         [id |-> i,
          project_id |-> IF f[i][1] = Some("Web") THEN "p1" ELSE "p2",
          task_id |-> Null, duration_minutes |-> Some(f[i][3]),
          start_time |-> f[i][2], description |-> "", projects |-> f[i][1]]] :
     f \in [1..n -> ({Null} \cup {Some(x) : x \in ChartNames})
                        \X ChartStarts \X ChartMinutes]}

\* a Reports page that has loaded one of these lists
InitCharts ==
    /\ time_entries = {}
    /\ nextId = 1
    /\ net = EmptyBag
    /\ projects = {[id |-> "p1", created_by |-> "A"], [id |-> "p2", created_by |-> "B"]}
    /\ project_members = {}
    /\ tasks = {}
    /\ mounted = [s \in Sessions |-> FALSE]
    /\ activeEntry = [s \in Sessions |-> Null]
    /\ selectedProject = [s \in Sessions |-> ""]
    /\ tracker = [s \in Sessions |-> InitialTracker]
    /\ toast = [s \in Sessions |-> ""]
    /\ form = [s \in Sessions |-> InitialForm]
    /\ \E n \in 0..MaxChartEntries : \E entries \in ChartInputs(n) :
           reports = [s \in Sessions |->
                         IF s \in OneSession
                         THEN [InitialReports EXCEPT !.mounted = TRUE,
                                                     !.timeEntries = entries]
                         ELSE InitialReports]
    /\ stats = [s \in Sessions |-> InitialStats]

\* the render of that page
NextCharts == \E s \in OneSession : RenderReports(s)

SpecCharts == InitCharts /\ [][NextCharts]_vars

\* the Reports page of one session while its filters are changed
NextReports ==
    \/ \E s \in OneSession : MountReports(s)
    \/ \E s \in OneSession, p \in ProjectIds \cup {"all"} : SetReportProject(s, p)
    \/ \E s \in OneSession, range \in ReportRanges : SetDateRange(s, range)
    \/ \E m \in Requests("reportProjects") : ExecLoadProjects(m)
    \/ \E m \in Requests("report") : ExecLoadTimeEntries(m)
    \/ \E m \in Responses("reportProjects") : ReportProjectsDone(m)
    \/ \E m \in Responses("report") : LoadTimeEntriesDone(m)

SpecReports == InitViews /\ [][NextReports]_vars

----------------------------------------------------------------------------
(* Properties *)

Abs(x) == IF x < 0 THEN -x ELSE x

\* seconds / 60 rounded to the nearest minute, a tie to the minute further from zero
NearestMinute(seconds) ==
    LET near == (seconds \div 60 - 1) .. (seconds \div 60 + 1)
    IN  CHOOSE k \in near : \A j \in near :
            \/ Abs(60 * k - seconds) < Abs(60 * j - seconds)
            \/ Abs(60 * k - seconds) = Abs(60 * j - seconds) /\ Abs(k) >= Abs(j)

\* the step is the store executing request m
StartStep(m) == \E now \in Instants : ExecStartInsert(m, now)
StopStep(m) == \E now \in Instants : ExecStopUpdate(m, now)
ManualStep(m) == \E now \in Instants : ExecManualInsert(m, now)

\* C1: at every instant at most one stored time entry of an owner has
\* is_running = true, whatever the interleaving of the clients' requests
C1_AtMostOneRunning ==
    \A u \in {SessionUser[s] : s \in Sessions} :
        Cardinality({r \in time_entries : r.user_id = u /\ r.is_running}) <= 1

\* C2: every stored entry with start_time and end_time has duration_minutes equal
\* to the rounded minutes between them, whatever duration_minutes the client sent
C2_DurationFollowsFormula ==
    \A r \in time_entries :
        r.end_time # Null =>
            r.duration_minutes = Some(NearestMinute(Val(r.end_time) - r.start_time))

\* a manual insert was answered whose payload carried a duration_minutes other
\* than the one that is stored for the row
C2_Witness ==
    \E m \in Responses("manual"), r \in time_entries :
        /\ r.start_time = m.row.start_time
        /\ r.end_time = m.row.end_time
        /\ r.duration_minutes # m.row.duration_minutes
        /\ m.error = ""

\* C3: a stop executed on an entry that is already closed leaves the stored row
\* as the first stop left it
C3_StopIdempotent ==
    [][\A m \in Requests("stop"), r \in time_entries :
           (r.id = m.row.id /\ ~r.is_running /\ StopStep(m)) => r \in time_entries']_vars

\* C4: no manual submission stores a row whose end_time is earlier than its
\* start_time
C4_NoReversedRange ==
    \A r \in time_entries : r.end_time # Null => Val(r.end_time) >= r.start_time

\* C5: a stop whose end instant is earlier than the entry's start_time leaves the
\* entry unchanged, and no stored entry has a negative duration_minutes
C5_StopBeforeStartRejected ==
    [][/\ \A m \in Requests("stop"), r \in time_entries :
              (r.id = m.row.id /\ Val(m.row.end_time) < r.start_time /\ StopStep(m))
                  => r \in time_entries'
       /\ \A r \in time_entries' :
              r.duration_minutes # Null => Val(r.duration_minutes) >= 0]_vars

\* C6: startTimer sends the instant of the call as start_time; the store adds
\* exactly one row for it, running, without end_time and duration_minutes and with
\* that start_time, and returns it; the handler makes it the activeEntry
C6_StartCreatesRunningEntry ==
    [][/\ \A s \in Sessions, now \in Instants :
              StartTimer(s, now) =>
                  \E m \in BagToSet(net') :
                      /\ m.kind = "start" /\ m.phase = "req" /\ m.sess = s
                      /\ m.row.start_time = now
                      /\ CopiesIn(m, net') = CopiesIn(m, net) + 1
       /\ \A m \in Requests("start") :
              StartStep(m) =>
                  \E r \in time_entries' \ time_entries :
                      /\ time_entries' = time_entries \cup {r}
                      /\ \A q \in time_entries : q.id # r.id
                      /\ r.is_running
                      /\ r.end_time = Null
                      /\ r.duration_minutes = Null
                      /\ r.start_time = m.row.start_time
                      /\ r.user_id = SessionUser[m.sess]
                      /\ Response(m, Some(r), "") \in BagToSet(net')
       /\ \A m \in Responses("start") :
              (m.error = "" /\ StartTimerDone(m)) => activeEntry'[m.sess] = m.data]_vars

\* the session's activeEntry is a stored row that is running and open
C6_Witness ==
    \E s \in Sessions :
        /\ activeEntry[s] # Null
        /\ Val(activeEntry[s]) \in time_entries
        /\ Val(activeEntry[s]).is_running
        /\ Val(activeEntry[s]).end_time = Null
        /\ Val(activeEntry[s]).duration_minutes = Null

\* C7: a stop executed on a running entry with an end instant not before its
\* start_time changes that row only, to is_running = false, end_time = the
\* supplied instant and duration_minutes = the rounded minutes (09:00:00 to
\* 10:30:00 is 90); the handler then clears activeEntry
C7_StopClosesEntry ==
    [][/\ \A m \in Requests("stop"), r \in time_entries :
              (/\ r.id = m.row.id /\ r.user_id = SessionUser[m.sess]
               /\ r.is_running
               /\ Val(m.row.end_time) >= r.start_time
               /\ StopStep(m))
                  => time_entries' = (time_entries \ {r}) \cup
                         {[r EXCEPT !.is_running = FALSE,
                                    !.end_time = m.row.end_time,
                                    !.duration_minutes =
                                        Some(NearestMinute(Val(m.row.end_time) - r.start_time))]}
       /\ \A r \in time_entries' :
              (r.start_time = 32400 /\ r.end_time = Some(37800))
                  => (r.duration_minutes = Some(90) /\ ~r.is_running)
       /\ \A m \in Responses("stop") :
              (m.error = "" /\ StopTimerDone(m)) => activeEntry'[m.sess] = Null]_vars

\* an entry started at 09:00:00 was stopped at 10:30:00 and the handler has run
C7_Witness ==
    /\ net = EmptyBag
    /\ \E s \in Sessions : mounted[s] /\ activeEntry[s] = Null
    /\ \E r \in time_entries :
           /\ ~r.is_running
           /\ r.start_time = 32400
           /\ r.end_time = Some(37800)
           /\ r.duration_minutes = Some(90)

\* C8: a manual insert with end_time not before start_time adds exactly one row,
\* not running, with the submitted start_time and end_time and the rounded minutes
\* between them (09:00 to 09:45 is 45); no manual entry is stored as running
C8_ManualCreatesClosedEntry ==
    [][/\ \A m \in Requests("manual") :
              (Val(m.row.end_time) >= m.row.start_time /\ ManualStep(m)) =>
                  \E r \in time_entries' \ time_entries :
                      /\ time_entries' = time_entries \cup {r}
                      /\ \A q \in time_entries : q.id # r.id
                      /\ ~r.is_running
                      /\ r.start_time = m.row.start_time
                      /\ r.end_time = m.row.end_time
                      /\ r.duration_minutes =
                             Some(NearestMinute(Val(m.row.end_time) - m.row.start_time))
       /\ \A r \in time_entries' :
              /\ ~r.is_running
              /\ (r.start_time = 32400 /\ r.end_time = Some(35100))
                     => r.duration_minutes = Some(45)]_vars

\* the range 09:00 to 09:45 was submitted and is stored with 45 minutes
C8_Witness ==
    \E r \in time_entries :
        /\ ~r.is_running
        /\ r.start_time = 32400
        /\ r.end_time = Some(35100)
        /\ r.duration_minutes = Some(45)

\* C9: a stored entry that is closed stays closed and keeps its end_time and
\* duration_minutes in every later step
C9_ClosedIsTerminal ==
    [][\A r \in time_entries, q \in time_entries' :
           (~r.is_running /\ q.id = r.id) =>
               /\ ~q.is_running
               /\ q.end_time = r.end_time
               /\ q.duration_minutes = r.duration_minutes]_vars

\* C10: every stored entry that is running has neither end_time nor
\* duration_minutes
C10_RunningIsOpen ==
    \A r \in time_entries :
        r.is_running => (r.end_time = Null /\ r.duration_minutes = Null)

\* a running entry is stored beside an entry that was stopped
C10_Witness ==
    \E r \in time_entries, q \in time_entries :
        /\ r.is_running
        /\ ~q.is_running
        /\ q.end_time # Null

\* C11: every stored entry that is not running has end_time and duration_minutes,
\* whether it was inserted or closed by an update, also when the statement did
\* not give an end_time
C11_ClosedIsComplete ==
    \A r \in time_entries :
        ~r.is_running => (r.end_time # Null /\ r.duration_minutes # Null)

\* C12: an update that sets is_running = false without end_time on a running
\* entry stores end_time = now() and the rounded minutes up to it, the same row
\* as an update that sets is_running = false and end_time to that instant
C12_ImplicitCloseAsExplicit ==
    [][\A u \in Users, r \in time_entries, now \in StopInstants :
           (/\ r.is_running
            /\ r.user_id = u
            /\ ApiUpdate(u, r.id, {"is_running"}, [is_running |-> FALSE], now))
               => /\ time_entries' = (time_entries \ {r}) \cup
                         {[r EXCEPT !.is_running = FALSE,
                                    !.end_time = Some(now),
                                    !.duration_minutes =
                                        Some(NearestMinute(now - r.start_time))]}
                  /\ time_entries' = (time_entries \ {r}) \cup
                         {PatchedRow(r, {"is_running", "end_time"},
                                     [is_running |-> FALSE, end_time |-> Some(now)],
                                     now)}]_vars

\* an entry started at 09:00:00 was closed without end_time at 09:00:30: no
\* other statement of the scenario gives that end_time
C12_Witness ==
    \E r \in time_entries :
        /\ ~r.is_running
        /\ r.start_time = 32400
        /\ r.end_time = Some(32430)
        /\ r.duration_minutes = Some(1)

\* C13: for every manual submission that is stored, the duration_minutes the
\* client sent equals the duration_minutes the trigger stored for the submitted
\* start_time and end_time
C13_ClientAgreesWithTrigger ==
    [][\A m \in Requests("manual") :
           ManualStep(m) =>
               \A r \in time_entries' \ time_entries :
                   r.duration_minutes = m.row.duration_minutes]_vars

\* C14: a stop executed for an id that no stored entry has is answered with an
\* error, and the handler that receives the answer does not show "Timer stopped"
C14_StopOfMissingEntryFails ==
    [][/\ \A m \in Requests("stop") :
              ((\A r \in time_entries : r.id # m.row.id) /\ StopStep(m)) =>
                  \E a \in BagToSet(net') :
                      /\ a.kind = "stop" /\ a.phase = "resp" /\ a.sess = m.sess
                      /\ a.error # ""
       /\ \A m \in Responses("stop") :
              ((\A r \in time_entries : r.id # m.row.id) /\ StopTimerDone(m)) =>
                  toast'[m.sess] # "Timer stopped"]_vars

\* the rows of the users other than u
OthersRows(u) == {r \in time_entries : r.user_id # u}

\* the step is a statement of user u on time_entries: it leaves the result of
\* the statement for u
EntryStatementBy(u) ==
    \E m \in BagToSet(net') \ BagToSet(net) : m.kind = "api" /\ m.sess = u

\* the step is a statement of user u on projects, tasks or project_members
CatalogStatementBy(u) ==
    \/ \E q \in ProjectIds, now \in StopInstants : ApiDeleteProject(u, q, now)
    \/ \E k \in TaskIds, now \in StopInstants : ApiDeleteTask(u, k, now)
    \/ \E pm \in project_members : ApiDeleteMember(u, pm)

\* the step returns only rows of u and leaves the rows of the other users as
\* they are: none is changed, deleted, added or handed over
OwnerOnly(u) ==
    /\ OthersRows(u)' = OthersRows(u)
    /\ \A m \in BagToSet(net') \ BagToSet(net) : \A r \in m.rows : r.user_id = u

\* C15: no operation performed as a user returns, changes, deletes or creates a
\* time entry of another user, and no update hands an entry to another user
C15_OnlyOwnerTouchesEntry ==
    [][\A u \in Users :
           (EntryStatementBy(u) \/ CatalogStatementBy(u)) => OwnerOnly(u)]_vars

\* C15 as amended: no statement on time_entries does so
C15_OnlyOwnerTouchesEntryByStatement ==
    [][\A u \in Users : EntryStatementBy(u) => OwnerOnly(u)]_vars

\* while an entry of A is stored, a statement of B on time_entries was rejected
\* by the policy, and one returned from a state with that entry
C15_Witness ==
    /\ \E r \in time_entries : r.user_id = "A"
    /\ \E m \in Responses("api") : m.sess = "B" /\ m.error = "42501"

C17_TickChangesElapsedTimeOnly ==
    [][\A s \in OneSession, now \in TickInstants :
           Tick(s, now) =>
               /\ UNCHANGED <<time_entries, catalog, nextId, net, mounted, activeEntry,
                              selectedProject, toast, form>>
               /\ \A x \in OneSession :
                      /\ tracker'[x].selectedTask = tracker[x].selectedTask
                      /\ tracker'[x].description = tracker[x].description
                      /\ tracker'[x].projects = tracker[x].projects
                      /\ tracker'[x].tasks = tracker[x].tasks
               /\ Val(activeEntry[s]).start_time + tracker'[s].elapsedTime = now
               /\ (Val(activeEntry[s]).start_time = 37800 /\ now = 37801)
                      => tracker'[s].elapsedTime = 1]_vars

\* a tick has run while a task is selected and a description is typed
C17_Witness ==
    \E s \in OneSession :
        /\ activeEntry[s] # Null
        /\ tracker[s].elapsedTime = 1
        /\ tracker[s].selectedTask = "t1"
        /\ tracker[s].description = "d"
        /\ selectedProject[s] = "p1"

\* C18: every entry that a start stores has the project_id of a stored project
\* that, when the entry is stored, its user created or is a member of
C18_EntryOnVisibleProject ==
    [][\A m \in Requests("start") :
           StartStep(m) =>
               \A r \in time_entries' \ time_entries :
                   \E q \in projects :
                       q.id = r.project_id /\ Visible(r.user_id, q)]_vars

\* C19: every entry that a start stores has no task or a task of the entry's
\* project, whatever projects and tasks were selected before
C19_TaskBelongsToProject ==
    [][\A m \in Requests("start") :
           StartStep(m) =>
               \A r \in time_entries' \ time_entries :
                   \/ r.task_id = Null
                   \/ \E k \in tasks :
                          k.id = Val(r.task_id) /\ k.project_id = r.project_id]_vars

\* the requests that the step sends
Sent == {m \in BagToSet(net') : m.phase = "req" /\ CopiesIn(m, net') > CopiesIn(m, net)}

\* C20: a step sends an insert of startTimer only with a project selected, an
\* insert of handleSubmit only with a project selected and a duration above zero,
\* and an update of stopTimer only with an active entry; a step that shows the
\* toast of a failed check sends nothing and leaves the store, activeEntry and the
\* form as they are
C20_FailedCheckPersistsNothing ==
    [][/\ \A m \in Sent :
              /\ m.kind = "start" =>
                     selectedProject[m.sess] # "" /\ m.row.project_id # ""
              /\ m.kind = "manual" =>
                     /\ form[m.sess].selectedProject # ""
                     /\ m.row.project_id # ""
                     /\ form[m.sess].duration # Null
                     /\ Val(form[m.sess].duration) > 0
              /\ m.kind = "stop" => activeEntry[m.sess] # Null
       /\ \A s \in OneSession :
              (toast'[s] # toast[s] /\ toast'[s] \in {"Project required", "Invalid duration"})
                  => UNCHANGED <<time_entries, catalog, nextId, net, mounted, activeEntry,
                                 selectedProject, tracker, form>>
       /\ time_entries' # time_entries =>
              \E m \in BagToSet(net) : m.phase = "req" /\ CopiesIn(m, net') < CopiesIn(m, net)]_vars

\* the form shows "Invalid duration" for a duration of zero or less, and no insert
\* is in flight or stored
C20_Witness ==
    \E s \in OneSession :
        /\ toast[s] = "Invalid duration"
        /\ form[s].selectedProject # ""
        /\ form[s].duration # Null
        /\ Val(form[s].duration) <= 0
        /\ Requests("manual") = {}
        /\ time_entries = {}

\* C21: a handler that receives the error of a rejected write keeps the client
\* state: startTimer keeps activeEntry (null stays null) and the selection, so
\* Start is offered again; stopTimer keeps activeEntry, elapsedTime and the
\* description, so Stop is offered again; handleSubmit keeps the form fields and
\* sets loading to false, so the button is enabled again
C21_RejectedWriteKeepsClientState ==
    [][/\ \A m \in Responses("start") :
              (m.error # "" /\ StartTimerDone(m)) =>
                  /\ UNCHANGED <<time_entries, activeEntry, selectedProject, tracker, form>>
                  /\ activeEntry[m.sess] = Null =>
                         /\ activeEntry'[m.sess] = Null
                         /\ selectedProject'[m.sess] # ""
                         /\ BagCardinality(net') < MaxInflight
       /\ \A m \in Responses("stop") :
              (m.error # "" /\ StopTimerDone(m)) =>
                  /\ UNCHANGED <<time_entries, activeEntry, selectedProject, form>>
                  /\ tracker'[m.sess].elapsedTime = tracker[m.sess].elapsedTime
                  /\ tracker'[m.sess].description = tracker[m.sess].description
                  /\ tracker'[m.sess].selectedTask = tracker[m.sess].selectedTask
                  /\ activeEntry[m.sess] # Null =>
                         /\ activeEntry'[m.sess] # Null
                         /\ BagCardinality(net') < MaxInflight
       /\ \A m \in Responses("manual") :
              (m.error # "" /\ HandleSubmitDone(m)) =>
                  /\ UNCHANGED <<time_entries, activeEntry, selectedProject, tracker>>
                  /\ form'[m.sess] = [form[m.sess] EXCEPT !.loading = FALSE]
                  /\ form'[m.sess].selectedProject # ""
                  /\ ValidDuration(form'[m.sess].duration)]_vars

\* the update of stopTimer was rejected after a tick, with a description typed:
\* the entry is still the activeEntry and still running in the store
C21_Witness ==
    \E s \in OneSession :
        /\ toast[s] = "Error stopping timer"
        /\ activeEntry[s] # Null
        /\ Val(activeEntry[s]) \in time_entries
        /\ tracker[s].elapsedTime > 0
        /\ tracker[s].description = "d"

\* the kinds of the requests of loadTimeEntries, loadStats and Reports' loadProjects
ReadKinds ==
    {"report", "reportProjects", "statsToday", "statsWeek", "statsProjects", "statsTasks"}

\* the answers that the step leaves in flight
Answered == {m \in BagToSet(net') : m.phase = "resp" /\ CopiesIn(m, net') > CopiesIn(m, net)}

\* the stored entry with this id is owned by the user of session s and is closed
ClosedEntryOf(s, id) ==
    \E r \in time_entries :
        /\ r.id = id
        /\ r.user_id = SessionUser[s]
        /\ ~r.is_running
        /\ r.end_time # Null

\* C22: a step of Reports or DashboardStats, and the store executing one of their
\* queries, leaves the stored tables as they are, and such a step sends only
\* queries; every entry that a query of loadTimeEntries or loadStats returns, and
\* so every entry whose duration is added to a total, is owned by the user and
\* is closed with end_time present when the query is executed
C22_TotalsReadClosedOwnEntries ==
    [][/\ (\/ reports' # reports
           \/ stats' # stats
           \/ \E m \in BagToSet(net) :
                  m.kind \in ReadKinds /\ CopiesIn(m, net') < CopiesIn(m, net))
              => /\ UNCHANGED <<time_entries, catalog, nextId>>
                 /\ \A m \in Sent : m.kind \in ReadKinds
       /\ \A a \in Answered :
              /\ a.kind = "report" =>
                     \A i \in DOMAIN Val(a.data) : ClosedEntryOf(a.sess, Val(a.data)[i].id)
              /\ a.kind \in {"statsToday", "statsWeek"} =>
                     \A r \in a.rows : ClosedEntryOf(a.sess, r.id)
       /\ \A m \in Responses("statsTasks") :
              LoadStatsDone(m) =>
                  \E S, T \in SUBSET {r \in time_entries : r.user_id = SessionUser[m.sess]} :
                      /\ stats'[m.sess].todayHours = SumMinutes(S)
                      /\ stats'[m.sess].weekHours = SumMinutes(T)]_vars

\* Reports shows the user's closed entry alone and the dashboard counts its 90
\* minutes, while the store also holds the user's running entry and the other
\* user's closed entry
C22_Witness ==
    \E s \in OneSession :
        /\ Len(reports[s].timeEntries) = 1
        /\ reports[s].timeEntries[1].id = ClosedEntryOfA.id
        /\ stats[s].todayHours = 90
        /\ RunningEntryOfA \in time_entries
        /\ ClosedEntryOfB \in time_entries

\* C23: when the query of loadActiveTimeEntry is executed while the store holds a
\* running entry of the user, also when it holds several, it returns one of them
\* without error; and the handler that receives a running entry makes it the
\* activeEntry, so that Stop is offered for it
C23_RunningTimerIsLoaded ==
    [][/\ \A m \in Requests("loadActive") :
              (/\ \E r \in time_entries : r.user_id = SessionUser[m.sess] /\ r.is_running
               /\ ExecLoadActive(m))
                  => \E a \in Answered :
                         /\ a.kind = "loadActive" /\ a.sess = m.sess
                         /\ a.data # Null
                         /\ Val(a.data) \in time_entries
                         /\ Val(a.data).user_id = SessionUser[m.sess]
                         /\ Val(a.data).is_running
       /\ \A m \in Responses("loadActive") :
              (m.data # Null /\ LoadActiveTimeEntryDone(m)) =>
                  activeEntry'[m.sess] = m.data]_vars

\* C24: the update of stopTimer leaves every stored entry other than the one with
\* the id it names as it is and adds or removes none; of the entry it names it
\* leaves user_id, project_id, task_id, category and start_time as they are; and
\* it leaves the projects, tasks and members as they are
C24_StopChangesTargetOnly ==
    [][\A m \in Requests("stop") :
           StopStep(m) =>
               /\ {r \in time_entries' : r.id # m.row.id}
                      = {r \in time_entries : r.id # m.row.id}
               /\ {r.id : r \in time_entries'} = {r.id : r \in time_entries}
               /\ Cardinality(time_entries') = Cardinality(time_entries)
               /\ \A r \in time_entries, q \in time_entries' :
                      q.id = r.id =>
                          /\ q.user_id = r.user_id
                          /\ q.project_id = r.project_id
                          /\ q.task_id = r.task_id
                          /\ q.category = r.category
                          /\ q.start_time = r.start_time
               /\ UNCHANGED catalog]_vars

\* the running entry was stopped at 12:00:00 with a description typed: it keeps
\* its task and project, and the two other stored entries are as they were
C24_Witness ==
    /\ \E r \in time_entries :
           /\ r = [RunningEntryOfA EXCEPT !.is_running = FALSE,
                                          !.end_time = Some(43200),
                                          !.duration_minutes = Some(90),
                                          !.description = "d"]
    /\ ClosedEntryOfA \in time_entries
    /\ ClosedEntryOfB \in time_entries

\* the length of a range of the given minutes in hundredths of an hour, rounded
RangeLength(minutes) == CHOOSE h \in 0 .. 2400 : 2 * Abs(3 * h - 5 * minutes) <= 3

\* C25: in time-range mode with a date, whenever the end time is later than the
\* start time the form's duration is the length of the displayed range in hours
\* with two decimals, so that the range can be submitted; otherwise the form
\* holds no duration computed from an earlier range (none, or one that was typed
\* in duration mode)
C25_DurationMatchesRange ==
    \A s \in OneSession :
        (form[s].mounted /\ form[s].entryMode = "time-range" /\ form[s].date # Null) =>
            IF form[s].endTime > form[s].startTime
            THEN /\ form[s].duration = Some(RangeLength(form[s].endTime - form[s].startTime))
                 /\ ValidDuration(form[s].duration)
            ELSE \/ form[s].duration = Null
                 \/ Val(form[s].duration) \in DurationInputs


\* C26: once no loadTasks request of a session is in flight, every task in the
\* task list of its TimeTracker is a task of the selected project
C26_TasksOfSelectedProject ==
    \A s \in OneSession :
        InFlight("loadTasks", s) = 0 =>
            \A k \in tracker[s].tasks : \A x \in tasks :
                x.id = k => x.project_id = selectedProject[s]


\* C27: once no loadTimeEntries request of a Reports page is in flight, the page
\* shows the entries that match its project filter and date range; and whenever
\* its loading flag is false, no loadTimeEntries request of it is in flight
C27_ReportShowsLatestFilter ==
    \A s \in OneSession :
        reports[s].mounted =>
            /\ (/\ InFlight("report", s) = 0
                /\ reports[s].dateRange.from # Null
                /\ reports[s].dateRange.to # Null)
                   => {reports[s].timeEntries[i].id : i \in DOMAIN reports[s].timeEntries}
                          = {r.id : r \in ReportRows(SessionUser[s],
                                 [user_id |-> SessionUser[s],
                                  project_id |-> reports[s].selectedProject,
                                  from |-> Val(reports[s].dateRange.from),
                                  to |-> Val(reports[s].dateRange.to)])}
            /\ ~reports[s].loading => InFlight("report", s) = 0


\* the running entry that the client of session s holds, as a set
HeldRunning(s) ==
    IF activeEntry[s] # Null /\ Val(activeEntry[s]).is_running
    THEN {Val(activeEntry[s])} ELSE {}

C29_WeekAtLeastToday ==
    \A s \in Sessions : stats[s].weekHours >= stats[s].todayHours


\* the sum of the hours of a list of chart groups
RECURSIVE SumHours(_)
SumHours(groups) ==
    IF groups = <<>> THEN 0 ELSE Head(groups).hours + SumHours(Tail(groups))

\* C30: whatever the list of loaded entries, a render of Reports gives charts
\* whose project groups and whose day groups each sum to the total of
\* getTotalHours, which is the sum over the loaded entries; every loaded entry
\* is in exactly one project group and one day group; and the project groups are
\* in non-increasing order of total
C30_ChartsPartitionTotal ==
    \A s \in Sessions :
        LET c == reports[s].charts
            entries == reports[s].timeEntries
        IN  c.rendered =>
              /\ c.error = ""
              /\ c.total = GetTotalHours(entries, Len(entries))
              /\ SumHours(c.project) = c.total
              /\ SumHours(c.daily) = c.total
              /\ \A i \in DOMAIN entries :
                     /\ entries[i].projects # Null
                     /\ Cardinality({j \in DOMAIN c.project :
                            c.project[j].name = Val(entries[i].projects)}) = 1
                     /\ Cardinality({j \in DOMAIN c.daily :
                            c.daily[j].name = DayKey(entries[i])}) = 1
              /\ \A j \in DOMAIN c.project : \A k \in DOMAIN c.project :
                     j < k => c.project[j].hours >= c.project[k].hours

====
